---- MODULE Spec2Model ----
(***************************************************************************)
(* Model of the hasoon2 bookkeeping application: the in-memory record      *)
(* store (MemStorage), the HTTP routes in front of it (routes.ts) and the  *)
(* aggregation done by the summary route and by the home view (home.tsx).  *)
(*                                                                         *)
(* Strings that the code parses (amounts) are sequences of one-character   *)
(* strings.  JavaScript numbers that hold amounts are IEEE-754 doubles:    *)
(* a double is a sign and a magnitude counted in units of 2^-59, kept in   *)
(* three 24-bit limbs, and every addition rounds to 53 significant bits,   *)
(* ties to even, as the hardware does.                                     *)
(***************************************************************************)
EXTENDS Integers, Sequences, FiniteSets, TLC

(***************************************************************************)
(* Bounds of the model.                                                    *)
(***************************************************************************)
MaxCustomerId == 2      \* createCustomer is not called once the counter passed this
MaxExpenseId  == 1      \* same for createExpense
MaxNow        == 1      \* the clock of the server runs over 0..MaxNow

(***************************************************************************)
(* IEEE-754 double arithmetic on magnitudes <<h, m, l>> (units of 2^-59).  *)
(***************************************************************************)
Limb == 16777216                         \* 2^24
FracBits == 59                           \* one unit is 2^-59
Mantissa == 53                           \* significant bits of a double
DayMs == 86400000                        \* milliseconds of a calendar day

RECURSIVE Pow2(_)
Pow2(n) == IF n = 0 THEN 1 ELSE 2 * Pow2(n - 1)

RECURSIVE Pow10(_)
Pow10(n) == IF n = 0 THEN 1 ELSE 10 * Pow10(n - 1)

RECURSIVE BitLen1(_)
BitLen1(x) == IF x = 0 THEN 0 ELSE 1 + BitLen1(x \div 2)

BitLen(g) ==
    IF g[1] > 0 THEN 48 + BitLen1(g[1])
    ELSE IF g[2] > 0 THEN 24 + BitLen1(g[2])
    ELSE BitLen1(g[3])

MagZero == <<0, 0, 0>>

MagAdd(a, b) ==
    LET l == a[3] + b[3]
        m == a[2] + b[2] + (l \div Limb)
        h == a[1] + b[1] + (m \div Limb)
    IN  <<h, m % Limb, l % Limb>>

MagLess(a, b) ==
    \/ a[1] < b[1]
    \/ a[1] = b[1] /\ a[2] < b[2]
    \/ a[1] = b[1] /\ a[2] = b[2] /\ a[3] < b[3]

\* a - b for a >= b
MagSub(a, b) ==
    LET bl == IF a[3] < b[3] THEN 1 ELSE 0
        l  == a[3] - b[3] + bl * Limb
        bm == IF a[2] - bl < b[2] THEN 1 ELSE 0
        m  == a[2] - bl - b[2] + bm * Limb
    IN  <<a[1] - bm - b[1], m, l>>

\* The double nearest to (g + rem/den) units, ties to even.  Only the low
\* limb is touched because at most 72 - 53 = 19 bits are dropped.
RoundMag(g, rem, den) ==
    LET n    == BitLen(g)
        d    == IF n > Mantissa THEN n - Mantissa ELSE 0
        p    == Pow2(d)
        r    == g[3] % p
        odd  == (g[3] \div p) % 2 = 1
        \* twice the dropped part compared with p, the dropped part being
        \* r + rem/den
        up   == IF d = 0
                THEN 2 * rem > den \/ (2 * rem = den /\ odd)
                ELSE 2 * r > p \/ (2 * r = p /\ (rem > 0 \/ odd))
        l0   == g[3] - r + (IF up THEN p ELSE 0)
        m0   == g[2] + (l0 \div Limb)
    IN  <<g[1] + (m0 \div Limb), m0 % Limb, l0 % Limb>>

(***************************************************************************)
(* Doubles.  kind is "num", "NaN", or (after JSON encoding) "null".        *)
(***************************************************************************)
Num(neg, mag) == [kind |-> "num", neg |-> neg /\ mag # MagZero, mag |-> mag]
NaN == [kind |-> "NaN", neg |-> FALSE, mag |-> MagZero]
Zero == Num(FALSE, MagZero)

\* a + b
DAdd(a, b) ==
    IF a.kind # "num" \/ b.kind # "num" THEN NaN
    ELSE IF a.neg = b.neg THEN Num(a.neg, RoundMag(MagAdd(a.mag, b.mag), 0, 1))
    ELSE IF MagLess(a.mag, b.mag) THEN Num(b.neg, RoundMag(MagSub(b.mag, a.mag), 0, 1))
    ELSE Num(a.neg, RoundMag(MagSub(a.mag, b.mag), 0, 1))

DNeg(a) == IF a.kind # "num" THEN a ELSE Num(~a.neg, a.mag)

\* a - b
DSub(a, b) == DAdd(a, DNeg(b))

\* a === b on numbers: NaN equals nothing
DEq(a, b) == a.kind = "num" /\ b.kind = "num" /\ a = b

(***************************************************************************)
(* parseFloat: optional sign, digits, optional "." and digits; parsing     *)
(* stops at the first character that does not fit and yields NaN when no   *)
(* digit was read.  Exponents and more than two fraction digits are outside*)
(* the inputs of the model.                                                *)
(***************************************************************************)
DigitChars == <<"0", "1", "2", "3", "4", "5", "6", "7", "8", "9">>

IsDigit(c) == \E d \in 1..10 : DigitChars[d] = c

DigitVal(c) == (CHOOSE d \in 1..10 : DigitChars[d] = c) - 1

RECURSIVE ScanDigits(_, _)
ScanDigits(s, i) ==
    IF i <= Len(s) /\ IsDigit(s[i]) THEN ScanDigits(s, i + 1) ELSE i

RECURSIVE DigitsValue(_, _, _)
DigitsValue(s, i, j) ==
    IF j < i THEN 0 ELSE 10 * DigitsValue(s, i, j - 1) + DigitVal(s[j])

RECURSIVE SkipSpaces(_, _)
SkipSpaces(s, i) ==
    IF i <= Len(s) /\ s[i] = " " THEN SkipSpaces(s, i + 1) ELSE i

\* the double nearest to num / den
NearestDouble(neg, num, den) ==
    LET top == num * Pow2(FracBits - 48)
        c3  == top \div Limb
        c2  == (c3 % den) * Limb + (top % Limb)
        c1  == (c2 % den) * Limb
        c0  == (c1 % den) * Limb
    IN  Num(neg, RoundMag(<<c2 \div den, c1 \div den, c0 \div den>>, c0 % den, den))

parseFloat(s) ==
    LET i0   == SkipSpaces(s, 1)
        sgn  == i0 <= Len(s) /\ s[i0] \in {"-", "+"}
        i1   == IF sgn THEN i0 + 1 ELSE i0
        i2   == ScanDigits(s, i1)
        dot  == i2 <= Len(s) /\ s[i2] = "."
        i3   == IF dot THEN ScanDigits(s, i2 + 1) ELSE i2
        k    == IF dot THEN i3 - (i2 + 1) ELSE 0
        int  == DigitsValue(s, i1, i2 - 1)
        frac == IF dot THEN DigitsValue(s, i2 + 1, i3 - 1) ELSE 0
    IN  IF i2 = i1 /\ k = 0 THEN NaN
        ELSE NearestDouble(sgn /\ s[i0] = "-", int * Pow10(k) + frac, Pow10(k))

(***************************************************************************)
(* Text.  Amounts, which the code parses, are character sequences; the     *)
(* other texts are only compared and are TLA+ strings.                     *)
(***************************************************************************)
A010 == <<"0", ".", "1", "0">>
A020 == <<"0", ".", "2", "0">>
A030 == <<"0", ".", "3", "0">>
A100 == <<"1", "0", "0">>

(***************************************************************************)
(* JSON values of a request body carry their JSON type.                    *)
(***************************************************************************)
JStr(v) == [t |-> "string", v |-> v]
JNum(v) == [t |-> "number", v |-> v]
\* the JSON string that spells the number n, as in {"carCount": "2"}
JNumText(n) == [t |-> "string", v |-> n]

\* shared/schema.ts: the columns of the insert schemas and their zod types
CustomerColumns ==
    [name |-> "string", goodsType |-> "string", carCount |-> "number",
     amount |-> "string", paymentStatus |-> "string"]

ExpenseColumns == [description |-> "string", amount |-> "string"]

\* a schema that checks the presence of the keys but not their types
SchemaAcceptsAnyType(columns, partial, body) ==
    partial \/ DOMAIN columns \subseteq DOMAIN body

\* zod's object parse: every known key must have its type, a key may be
\* absent only under .partial(), and unknown keys are stripped.
SchemaAccepts(columns, partial, body) ==
    /\ \A k \in DOMAIN columns \cap DOMAIN body : body[k].t = columns[k]
    /\ partial \/ DOMAIN columns \subseteq DOMAIN body

\* the parse as .passthrough() would do it: unknown keys are kept
SchemaParseKeepingUnknownKeys(columns, body) ==
    [k \in DOMAIN body |-> body[k].v]

SchemaParse(columns, body) ==
    [k \in DOMAIN columns \cap DOMAIN body |-> body[k].v]

\* parseInt(req.params.id): the leading digits, NaN (here -1, which is no
\* key of any map) when there are none
parseInt(s) ==
    LET i0 == SkipSpaces(s, 1)
        i1 == ScanDigits(s, i0)
    IN  IF i1 = i0 THEN -1 ELSE DigitsValue(s, i0, i1 - 1)

(***************************************************************************)
(* Map<number, T>: entries <<key, value>> in insertion order.              *)
(***************************************************************************)
MapHas(m, k) == \E i \in 1..Len(m) : m[i][1] = k

MapGet(m, k) == m[CHOOSE i \in 1..Len(m) : m[i][1] = k][2]

\* set keeps the position of a key that is already present
MapSet(m, k, v) ==
    IF MapHas(m, k)
    THEN [i \in 1..Len(m) |-> IF m[i][1] = k THEN <<k, v>> ELSE m[i]]
    ELSE Append(m, <<k, v>>)

MapDelete(m, k) == SelectSeq(m, LAMBDA e : e[1] # k)

MapValues(m) == [i \in 1..Len(m) |-> m[i][2]]

MapKeys(m) == {m[i][1] : i \in 1..Len(m)}

\* { ...a, ...b }
Spread(a, b) ==
    [k \in DOMAIN a \cup DOMAIN b |-> IF k \in DOMAIN b THEN b[k] ELSE a[k]]

\* Array.prototype.sort with comparator (a, b) => b.createdAt - a.createdAt;
\* the sort is stable
\* the sort with the comparator turned round, a.createdAt - b.createdAt
RECURSIVE InsertOldestFirst(_, _)
InsertOldestFirst(sorted, x) ==
    IF sorted = <<>> THEN <<x>>
    ELSE IF Head(sorted).createdAt - x.createdAt <= 0
         THEN <<Head(sorted)>> \o InsertOldestFirst(Tail(sorted), x)
         ELSE <<x>> \o sorted

RECURSIVE InsertByCreatedAt(_, _)
InsertByCreatedAt(sorted, x) ==
    IF sorted = <<>> THEN <<x>>
    ELSE IF x.createdAt - Head(sorted).createdAt <= 0
         THEN <<Head(sorted)>> \o InsertByCreatedAt(Tail(sorted), x)
         ELSE <<x>> \o sorted

RECURSIVE SortNewestFirst(_)
SortNewestFirst(a) ==
    IF a = <<>> THEN <<>>
    ELSE InsertByCreatedAt(SortNewestFirst(SubSeq(a, 1, Len(a) - 1)), a[Len(a)])

(***************************************************************************)
(* MemStorage.  A method takes the storage object and returns the storage  *)
(* object after the call (st) and the value the call returns (ret).        *)
(***************************************************************************)
Undefined == [undefined |-> TRUE]

\* res.json({ message })
Message(text) == [message |-> text]

MemStorage ==
    [customers |-> <<>>, expenses |-> <<>>,
     currentCustomerId |-> 1, currentExpenseId |-> 1]

getAllCustomers(s) == SortNewestFirst(MapValues(s.customers))

getCustomer(s, id) ==
    IF MapHas(s.customers, id) THEN MapGet(s.customers, id) ELSE Undefined

\* createCustomer taking the id from the size of the map, not from the counter
\* createCustomer drawing its id from a counter shared with the expenses
createCustomerAdvancingBothCounters(s, insertCustomer, date) ==
    LET id == s.currentCustomerId
        customer == Spread(insertCustomer, [id |-> id, createdAt |-> date])
    IN  [st  |-> [s EXCEPT !.currentCustomerId = id + 1,
                           !.currentExpenseId = @ + 1,
                           !.customers = MapSet(@, id, customer)],
         ret |-> customer]

createCustomerIdFromSize(s, insertCustomer, date) ==
    LET id == Len(s.customers) + 1
        customer == Spread(insertCustomer, [id |-> id, createdAt |-> date])
    IN  [st  |-> [s EXCEPT !.currentCustomerId = @ + 1,
                           !.customers = MapSet(@, id, customer)],
         ret |-> customer]

createCustomer(s, insertCustomer, date) ==
    LET id == s.currentCustomerId
        customer == Spread(insertCustomer, [id |-> id, createdAt |-> date])
    IN  [st  |-> [s EXCEPT !.currentCustomerId = id + 1,
                           !.customers = MapSet(@, id, customer)],
         ret |-> customer]

\* updateCustomer without the early return for an unknown id
updateCustomerUpsert(s, id, updates) ==
    LET customer == IF MapHas(s.customers, id) THEN MapGet(s.customers, id) ELSE << >>
        updatedCustomer == Spread(customer, updates)
    IN  [st  |-> [s EXCEPT !.customers = MapSet(@, id, updatedCustomer)],
         ret |-> updatedCustomer]

updateCustomer(s, id, updates) ==
    IF ~MapHas(s.customers, id) THEN [st |-> s, ret |-> Undefined]
    ELSE LET updatedCustomer == Spread(MapGet(s.customers, id), updates)
         IN  [st  |-> [s EXCEPT !.customers = MapSet(@, id, updatedCustomer)],
              ret |-> updatedCustomer]

\* deleteCustomer that reports success whatever Map.delete returned
deleteCustomerAlwaysTrue(s, id) ==
    [st  |-> [s EXCEPT !.customers = MapDelete(@, id)],
     ret |-> TRUE]

deleteCustomer(s, id) ==
    [st  |-> [s EXCEPT !.customers = MapDelete(@, id)],
     ret |-> MapHas(s.customers, id)]

getAllExpenses(s) == SortNewestFirst(MapValues(s.expenses))

getExpense(s, id) ==
    IF MapHas(s.expenses, id) THEN MapGet(s.expenses, id) ELSE Undefined

createExpense(s, insertExpense, date) ==
    LET id == s.currentExpenseId
        expense == Spread(insertExpense, [id |-> id, createdAt |-> date])
    IN  [st  |-> [s EXCEPT !.currentExpenseId = id + 1,
                           !.expenses = MapSet(@, id, expense)],
         ret |-> expense]

updateExpense(s, id, updates) ==
    IF ~MapHas(s.expenses, id) THEN [st |-> s, ret |-> Undefined]
    ELSE LET updatedExpense == Spread(MapGet(s.expenses, id), updates)
         IN  [st  |-> [s EXCEPT !.expenses = MapSet(@, id, updatedExpense)],
              ret |-> updatedExpense]

deleteExpense(s, id) ==
    [st  |-> [s EXCEPT !.expenses = MapDelete(@, id)],
     ret |-> MapHas(s.expenses, id)]

\* clearAllData that clears the maps and leaves the counters
clearAllDataKeepingCounters(s) ==
    [s EXCEPT !.customers = <<>>, !.expenses = <<>>]

clearAllData(s) ==
    [s EXCEPT !.customers = <<>>, !.expenses = <<>>,
              !.currentCustomerId = 1, !.currentExpenseId = 1]

(***************************************************************************)
(* GET /api/summary: the body computed from the two lists.                 *)
(***************************************************************************)
\* the sum that is not a number for an empty list
RECURSIVE SumAmountsOfNonEmpty(_)
SumAmountsOfNonEmpty(list) ==
    IF list = <<>> THEN NaN
    ELSE IF Len(list) = 1 THEN parseFloat(list[1].amount)
    ELSE DAdd(SumAmountsOfNonEmpty(SubSeq(list, 1, Len(list) - 1)),
              parseFloat(list[Len(list)].amount))

\* customers.reduce((sum, c) => sum + parseFloat(c.amount), 0)
RECURSIVE SumAmounts(_)
SumAmounts(list) ==
    IF list = <<>> THEN Zero
    ELSE DAdd(SumAmounts(SubSeq(list, 1, Len(list) - 1)),
              parseFloat(list[Len(list)].amount))

\* customers.reduce((sum, c) => sum + c.carCount, 0)
RECURSIVE SumCars(_)
SumCars(list) ==
    IF list = <<>> THEN 0
    ELSE SumCars(SubSeq(list, 1, Len(list) - 1)) + list[Len(list)].carCount

\* JSON.stringify writes NaN as null
JsonNumber(d) == IF d.kind = "NaN" THEN [d EXCEPT !.kind = "null"] ELSE d

\* the summary with expenseCount taken from the customer list
SummaryCountingCustomersTwice(customerList, expenseList) ==
    LET totalRevenue  == SumAmounts(customerList)
        totalExpenses == SumAmounts(expenseList)
        totalCars     == SumCars(customerList)
        netTotal      == DSub(totalRevenue, totalExpenses)
    IN  [totalRevenue  |-> JsonNumber(totalRevenue),
         totalExpenses |-> JsonNumber(totalExpenses),
         netTotal      |-> JsonNumber(netTotal),
         totalCars     |-> totalCars,
         customerCount |-> Len(customerList),
         expenseCount  |-> Len(customerList)]

Summary(customerList, expenseList) ==
    LET totalRevenue  == SumAmounts(customerList)
        totalExpenses == SumAmounts(expenseList)
        totalCars     == SumCars(customerList)
        netTotal      == DSub(totalRevenue, totalExpenses)
    IN  [totalRevenue  |-> JsonNumber(totalRevenue),
         totalExpenses |-> JsonNumber(totalExpenses),
         netTotal      |-> JsonNumber(netTotal),
         totalCars     |-> totalCars,
         customerCount |-> Len(customerList),
         expenseCount  |-> Len(expenseList)]

(***************************************************************************)
(* State.                                                                  *)
(*   storage   the MemStorage singleton                                    *)
(*   now       the last reading of the clock (new Date()), in ms since     *)
(*             midnight of day 0; a later reading is never smaller         *)
(*   request   the request handled last: its route and its :id             *)
(*   response  its response: status (0 for a direct storage call) and body *)
(*   issued    history: the ids returned by create since the last          *)
(*             clearAllData, per collection, in the order of the calls     *)
(*   removed   history: the ids whose delete returned true since the last  *)
(*             clearAllData, per collection                                *)
(*   pending   the GET /api/summary or POST /api/generate-pdf request that  *)
(*             awaits its second read: its route and the customer list it  *)
(*             has read, and (history) the store as it was at the first    *)
(*             and at the second read of the last such request             *)
(*   customers the data of the home view's "/api/customers" query          *)
(*   customersLoading  whether that query has yet to resolve               *)
(*   view      what the daily-operations block of the home view rendered   *)
(*   report    the report that generatePDF laid out last: its groups, its  *)
(*             text lines with page and height, and the totals it prints   *)
(*   expenses, summary  the data of the "/api/expenses" and "/api/summary" *)
(*             queries of the home view                                    *)
(*   stale     the query keys that were invalidated and are to be fetched  *)
(*   showCustomerDialog, editingCustomer, expandedDates  state of Home     *)
(*   display, previousValue, operation, waitingForNewValue  state of       *)
(*             Calculator                                                  *)
(***************************************************************************)
VARIABLES storage, now, request, response, issued, removed, customers,
          customersLoading, view, report, pending,
          expenses, summary, stale,
          showCustomerDialog, editingCustomer, expandedDates,
          display, previousValue, operation, waitingForNewValue

vars == <<storage, now, request, response, issued, removed, customers,
          customersLoading, view, report, pending,
          expenses, summary, stale,
          showCustomerDialog, editingCustomer, expandedDates,
          display, previousValue, operation, waitingForNewValue>>

serverVars == <<storage, now, request, response, issued, removed, pending>>

queryVars == <<expenses, summary, stale>>

dialogVars == <<showCustomerDialog, editingCustomer, expandedDates>>

calcVars == <<display, previousValue, operation, waitingForNewValue>>

homeVars == <<customers, customersLoading, view, report, queryVars, dialogVars, calcVars>>

\* null, where the other values are records
Null == [null |-> TRUE]

\* null, where the other values are strings
NoOperation == "null"

\* {}, the data of the summary query before its first answer
EmptyObject == [empty |-> TRUE]

\* useState(...) of Home and of Calculator, and the default data of the
\* queries, each of which is to be fetched once the view is mounted
InitialState ==
    /\ expenses = <<>>
    /\ summary = EmptyObject
    /\ stale = {"/api/customers", "/api/expenses", "/api/summary"}
    /\ showCustomerDialog = FALSE
    /\ editingCustomer = Null
    /\ expandedDates = {}
    /\ display = <<"0">>
    /\ previousValue = Null
    /\ operation = NoOperation
    /\ waitingForNewValue = FALSE

\* the view before its first render
NonePending ==
    [route |-> "none", customers |-> <<>>, first |-> MemStorage, second |-> MemStorage]

NotRendered == [state |-> "none", sections |-> <<>>]

NotGenerated ==
    [state |-> "none", customers |-> <<>>, expenses |-> <<>>,
     groups |-> <<>>, lines |-> <<>>,
     totals |-> [totalRevenue |-> Zero, totalExpenses |-> Zero, netTotal |-> Zero]]

(***************************************************************************)
(* Inputs of the routes.                                                   *)
(***************************************************************************)
\* request bodies of POST /api/customers: a well-formed one that also has
\* keys the schema does not know, and one with an ill-typed carCount
CustomerBodies ==
    { [name |-> JStr("B"), goodsType |-> JStr("Y"), carCount |-> JNum(2),
       amount |-> JStr(A100), paymentStatus |-> JStr("paid"),
       id |-> JNum(9), createdAt |-> JNum(7)],
      [name |-> JStr("A"), goodsType |-> JStr("X"), carCount |-> JNumText(2),
       amount |-> JStr(A010), paymentStatus |-> JStr("paid")] }

\* request bodies of PUT /api/customers/:id: two fields together with two
\* keys the schema does not know, and an ill-typed carCount
CustomerUpdates ==
    { [amount |-> JStr(A020), paymentStatus |-> JStr("unpaid"),
       id |-> JNum(9), createdAt |-> JNum(7)],
      [carCount |-> JNumText(2)] }

\* request bodies of POST /api/expenses: the second one lacks the amount
ExpenseBodies ==
    { [description |-> JStr("fuel"), amount |-> JStr(A030), id |-> JNum(9)],
      [description |-> JStr("fuel")] }

\* arguments of updateExpense, a Partial<InsertExpense>
ExpenseUpdates == { [amount |-> A020] }

\* the :id parameter of a path: the ids the counter can have issued, and a
\* text that is no number
IdParams(max) == { <<DigitChars[i + 1]>> : i \in 1..max } \cup { <<"x">> }

NoBody == << >>

(***************************************************************************)
(* Initial state: new MemStorage(), nothing requested yet.                 *)
(***************************************************************************)
Init ==
    /\ storage = MemStorage
    /\ now = 0
    /\ request = [route |-> "none", id |-> 0]
    /\ response = [status |-> 0, body |-> NoBody]
    /\ issued = [customers |-> <<>>, expenses |-> <<>>]
    /\ removed = [customers |-> {}, expenses |-> {}]
    /\ customers = <<>>
    /\ customersLoading = TRUE
    /\ view = NotRendered
    /\ report = NotGenerated
    /\ pending = NonePending
    /\ InitialState

(***************************************************************************)
(* Customer routes.                                                        *)
(***************************************************************************)
GetCustomers ==
    /\ request' = [route |-> "GET /api/customers", id |-> 0]
    /\ response' = [status |-> 200, body |-> getAllCustomers(storage)]
    /\ UNCHANGED <<storage, now, issued, removed>>
    /\ UNCHANGED homeVars
    /\ UNCHANGED pending

PostCustomersHandler(body, date) ==
    /\ storage.currentCustomerId <= MaxCustomerId
    /\ now' = date
    /\ request' = [route |-> "POST /api/customers", id |-> 0]
    /\ IF SchemaAccepts(CustomerColumns, FALSE, body)
       THEN LET r == createCustomer(storage, SchemaParse(CustomerColumns, body), date)
            IN  /\ storage' = r.st
                /\ response' = [status |-> 201, body |-> r.ret]
                /\ issued' = [issued EXCEPT !.customers = Append(@, r.ret.id)]
       ELSE /\ response' = [status |-> 400, body |-> Message("Invalid customer data")]
            /\ UNCHANGED <<storage, issued>>
    /\ UNCHANGED removed

\* the route, called by a client other than the home view
PostCustomers(body, date) ==
    /\ PostCustomersHandler(body, date)
    /\ UNCHANGED homeVars
    /\ UNCHANGED pending

PutCustomerHandler(param, body) ==
    LET id == parseInt(param)
    IN  /\ request' = [route |-> "PUT /api/customers/:id", id |-> id]
        /\ IF SchemaAccepts(CustomerColumns, TRUE, body)
           THEN LET r == updateCustomer(storage, id, SchemaParse(CustomerColumns, body))
                IN  /\ storage' = r.st
                    /\ response' = IF r.ret = Undefined
                                   THEN [status |-> 404, body |-> Message("Customer not found")]
                                   ELSE [status |-> 200, body |-> r.ret]
           ELSE /\ response' = [status |-> 400, body |-> Message("Invalid customer data")]
                /\ UNCHANGED storage
        /\ UNCHANGED <<now, issued, removed>>

\* the route, called by a client other than the home view
PutCustomer(param, body) ==
    /\ PutCustomerHandler(param, body)
    /\ UNCHANGED homeVars
    /\ UNCHANGED pending

DeleteCustomerHandler(param) ==
    LET id == parseInt(param)
        r  == deleteCustomer(storage, id)
    IN  /\ request' = [route |-> "DELETE /api/customers/:id", id |-> id]
        /\ storage' = r.st
        /\ response' = IF ~r.ret
                       THEN [status |-> 404, body |-> Message("Customer not found")]
                       ELSE [status |-> 200, body |-> Message("Customer deleted successfully")]
        /\ removed' = IF r.ret THEN [removed EXCEPT !.customers = @ \cup {id}] ELSE removed
        /\ UNCHANGED <<now, issued>>

\* the route, called by a client other than the home view
DeleteCustomer(param) ==
    /\ DeleteCustomerHandler(param)
    /\ UNCHANGED homeVars
    /\ UNCHANGED pending

(***************************************************************************)
(* Expense routes.                                                         *)
(***************************************************************************)
GetExpenses ==
    /\ request' = [route |-> "GET /api/expenses", id |-> 0]
    /\ response' = [status |-> 200, body |-> getAllExpenses(storage)]
    /\ UNCHANGED <<storage, now, issued, removed>>
    /\ UNCHANGED homeVars
    /\ UNCHANGED pending

PostExpensesHandler(body, date) ==
    /\ storage.currentExpenseId <= MaxExpenseId
    /\ now' = date
    /\ request' = [route |-> "POST /api/expenses", id |-> 0]
    /\ IF SchemaAccepts(ExpenseColumns, FALSE, body)
       THEN LET r == createExpense(storage, SchemaParse(ExpenseColumns, body), date)
            IN  /\ storage' = r.st
                /\ response' = [status |-> 201, body |-> r.ret]
                /\ issued' = [issued EXCEPT !.expenses = Append(@, r.ret.id)]
       ELSE /\ response' = [status |-> 400, body |-> Message("Invalid expense data")]
            /\ UNCHANGED <<storage, issued>>
    /\ UNCHANGED removed

\* the route, called by a client other than the home view
PostExpenses(body, date) ==
    /\ PostExpensesHandler(body, date)
    /\ UNCHANGED homeVars
    /\ UNCHANGED pending

DeleteExpenseHandler(param) ==
    LET id == parseInt(param)
        r  == deleteExpense(storage, id)
    IN  /\ request' = [route |-> "DELETE /api/expenses/:id", id |-> id]
        /\ storage' = r.st
        /\ response' = IF ~r.ret
                       THEN [status |-> 404, body |-> Message("Expense not found")]
                       ELSE [status |-> 200, body |-> Message("Expense deleted successfully")]
        /\ removed' = IF r.ret THEN [removed EXCEPT !.expenses = @ \cup {id}] ELSE removed
        /\ UNCHANGED <<now, issued>>

\* the route, called by a client other than the home view
DeleteExpense(param) ==
    /\ DeleteExpenseHandler(param)
    /\ UNCHANGED homeVars
    /\ UNCHANGED pending

(***************************************************************************)
(* Summary and clear-all routes.                                           *)
(***************************************************************************)
\* the summary route taking a customer id for itself
GetSummaryTakingAnId ==
    /\ request' = [route |-> "GET /api/summary", id |-> 0]
    /\ response' = [status |-> 200,
                    body |-> Summary(getAllCustomers(storage), getAllExpenses(storage))]
    /\ storage' = [storage EXCEPT !.currentCustomerId = @ + 1]
    /\ UNCHANGED <<now, issued, removed>>
    /\ UNCHANGED homeVars
    /\ UNCHANGED pending

GetSummary ==
    /\ request' = [route |-> "GET /api/summary", id |-> 0]
    /\ response' = [status |-> 200,
                    body |-> Summary(getAllCustomers(storage), getAllExpenses(storage))]
    /\ UNCHANGED <<storage, now, issued, removed>>
    /\ UNCHANGED homeVars
    /\ UNCHANGED pending

ClearAllHandler ==
    /\ request' = [route |-> "DELETE /api/clear-all", id |-> 0]
    /\ storage' = clearAllData(storage)
    /\ response' = [status |-> 200, body |-> Message("All data cleared successfully")]
    /\ issued' = [customers |-> <<>>, expenses |-> <<>>]
    /\ removed' = [customers |-> {}, expenses |-> {}]
    /\ UNCHANGED now

\* the route, called by a client other than the home view
ClearAll ==
    /\ ClearAllHandler
    /\ UNCHANGED homeVars
    /\ UNCHANGED pending

(***************************************************************************)
(* updateExpense, a method of IStorage that no route calls, called         *)
(* directly.                                                               *)
(***************************************************************************)
CallUpdateExpense(id, updates) ==
    LET r == updateExpense(storage, id, updates)
    IN  /\ request' = [route |-> "storage.updateExpense", id |-> id]
        /\ storage' = r.st
        /\ response' = [status |-> 0, body |-> r.ret]
        /\ UNCHANGED <<now, issued, removed>>
        /\ UNCHANGED homeVars
        /\ UNCHANGED pending

\* new Date() in a create handler reads date, any instant from the last
\* reading on
Next ==
    \/ GetCustomers
    \/ \E body \in CustomerBodies, date \in now..MaxNow : PostCustomers(body, date)
    \/ \E param \in IdParams(MaxCustomerId), body \in CustomerUpdates : PutCustomer(param, body)
    \/ \E param \in IdParams(MaxCustomerId) : DeleteCustomer(param)
    \/ GetExpenses
    \/ \E body \in ExpenseBodies, date \in now..MaxNow : PostExpenses(body, date)
    \/ \E param \in IdParams(MaxExpenseId) : DeleteExpense(param)
    \/ GetSummary
    \/ ClearAll
    \/ \E id \in 1..MaxExpenseId, updates \in ExpenseUpdates : CallUpdateExpense(id, updates)

Spec == Init /\ [][Next]_vars

(***************************************************************************)
(* Helpers of the properties.                                              *)
(***************************************************************************)
Increasing(seq) == \A i, j \in 1..Len(seq) : i < j => seq[i] < seq[j]

Records(m) == { m[i][2] : i \in 1..Len(m) }

\* each key once, and every record filed under its own id
WellKeyed(m) ==
    /\ \A i, j \in 1..Len(m) : i # j => m[i][1] # m[j][1] /\ m[i][2].id # m[j][2].id
    /\ \A i \in 1..Len(m) : m[i][2].id = m[i][1]

\* the record that a newest-first listing of the set puts last: the oldest,
\* and among records of one instant the one created last
ListedLast(S) ==
    CHOOSE e \in S : \A f \in S \ {e} :
        \/ f.createdAt > e.createdAt
        \/ f.createdAt = e.createdAt /\ f.id < e.id

\* the JavaScript sum of the amounts of a set of records, added in the
\* order of a newest-first listing
RECURSIVE AmountOf(_)
AmountOf(S) ==
    IF S = {} THEN Zero
    ELSE DAdd(AmountOf(S \ {ListedLast(S)}), parseFloat(ListedLast(S).amount))

RECURSIVE CarsOf(_)
CarsOf(S) ==
    IF S = {} THEN 0
    ELSE LET e == CHOOSE e \in S : TRUE IN CarsOf(S \ {e}) + e.carCount

\* the valid inputs of the create methods
CustomerInserts ==
    { SchemaParse(CustomerColumns, b) :
        b \in { c \in CustomerBodies : SchemaAccepts(CustomerColumns, FALSE, c) } }

ExpenseInserts ==
    { SchemaParse(ExpenseColumns, b) :
        b \in { c \in ExpenseBodies : SchemaAccepts(ExpenseColumns, FALSE, c) } }

(***************************************************************************)
(* C1.  Within each collection no two stored records share an id, and the  *)
(* ids returned by create since the last reset are strictly increasing in  *)
(* the order of the calls, so that a create never returns an id that was   *)
(* returned before, whether or not its record has been deleted since.      *)
(***************************************************************************)
C1_IdsUniqueAndNeverReused ==
    /\ WellKeyed(storage.customers)
    /\ WellKeyed(storage.expenses)
    /\ Increasing(issued.customers)
    /\ Increasing(issued.expenses)
    /\ MapKeys(storage.customers) \subseteq { issued.customers[i] : i \in 1..Len(issued.customers) }
    /\ MapKeys(storage.expenses) \subseteq { issued.expenses[i] : i \in 1..Len(issued.expenses) }

\* a customer has just been created after the customer with id 1 was deleted
C1_Witness ==
    /\ request.route = "POST /api/customers"
    /\ response.status = 201
    /\ 1 \in removed.customers
    /\ Len(issued.customers) = 2

(***************************************************************************)
(* C2.  The body returned by GET /api/summary is made of the sums and the  *)
(* counts over the records that are in the store when it is answered       *)
(* (amounts added as JavaScript numbers in listing order): nothing of a    *)
(* deleted record or of a replaced field value is left in it.              *)
(***************************************************************************)
C2_SummaryOfCurrentRecords ==
    request.route = "GET /api/summary" =>
        /\ response.status = 200
        /\ response.body.totalRevenue = JsonNumber(AmountOf(Records(storage.customers)))
        /\ response.body.totalExpenses = JsonNumber(AmountOf(Records(storage.expenses)))
        /\ response.body.totalCars = CarsOf(Records(storage.customers))
        /\ response.body.customerCount = Cardinality(MapKeys(storage.customers))
        /\ response.body.expenseCount = Cardinality(MapKeys(storage.expenses))

\* a summary asked for after one customer was deleted and the amount of the
\* other one was replaced by 0.20
C2_Witness ==
    /\ request.route = "GET /api/summary"
    /\ removed.customers # {}
    /\ response.body.customerCount = 1
    /\ response.body.totalRevenue = parseFloat(A020)
    /\ response.body.expenseCount = 1

(***************************************************************************)
(* C3.  After clearAllData both collections are empty and a create on      *)
(* either collection returns id 1; the first id issued after a reset is 1. *)
(***************************************************************************)
C3_ResetRestartsIds ==
    /\ request.route = "DELETE /api/clear-all" =>
          /\ response.status = 200
          /\ storage.customers = <<>>
          /\ storage.expenses = <<>>
          /\ \A c \in CustomerInserts : createCustomer(storage, c, now).ret.id = 1
          /\ \A e \in ExpenseInserts : createExpense(storage, e, now).ret.id = 1
    /\ issued.customers # <<>> => issued.customers[1] = 1
    /\ issued.expenses # <<>> => issued.expenses[1] = 1

\* the store has just been cleared, at an instant later than the start
C3_Witness ==
    /\ request.route = "DELETE /api/clear-all"
    /\ now = MaxNow
    /\ storage = MemStorage

(***************************************************************************)
(* C4.  A PUT that the schema lets through and that names a stored         *)
(* customer leaves the record's id and createdAt as they were, gives every *)
(* supplied column the supplied value, keeps every other column, and       *)
(* changes no other record, no expense and no counter.  The same holds of  *)
(* updateExpense.                                                          *)
(***************************************************************************)
UpdatedInPlace(old, new, id, columns, supplied) ==
    /\ Len(new) = Len(old)
    /\ \A i \in 1..Len(old) :
          IF old[i][1] # id THEN new[i] = old[i]
          ELSE /\ new[i][1] = id
               /\ DOMAIN new[i][2] = DOMAIN old[i][2]
               /\ new[i][2].id = old[i][2].id
               /\ new[i][2].createdAt = old[i][2].createdAt
               /\ \A k \in DOMAIN columns :
                     new[i][2][k] = IF k \in DOMAIN supplied THEN supplied[k]
                                    ELSE old[i][2][k]

C4_UpdateFrame ==
    [][ /\ \A param \in IdParams(MaxCustomerId), body \in CustomerUpdates :
              PutCustomer(param, body) /\ response'.status = 200 =>
                  /\ UpdatedInPlace(storage.customers, storage'.customers, parseInt(param),
                                    CustomerColumns,
                                    [k \in DOMAIN body |-> body[k].v])
                  /\ response'.body = MapGet(storage'.customers, parseInt(param))
                  /\ storage'.expenses = storage.expenses
                  /\ storage'.currentCustomerId = storage.currentCustomerId
                  /\ storage'.currentExpenseId = storage.currentExpenseId
        /\ \A id \in 1..MaxExpenseId, updates \in ExpenseUpdates :
              CallUpdateExpense(id, updates) /\ response'.body # Undefined =>
                  /\ UpdatedInPlace(storage.expenses, storage'.expenses, id,
                                    ExpenseColumns, updates)
                  /\ storage'.customers = storage.customers
                  /\ storage'.currentCustomerId = storage.currentCustomerId
                  /\ storage'.currentExpenseId = storage.currentExpenseId
      ]_vars

\* the first of two stored customers has just been updated
C4_Witness ==
    /\ request.route = "PUT /api/customers/:id"
    /\ request.id = 1
    /\ response.status = 200
    /\ response.body.amount = A020
    /\ Len(storage.customers) = 2

(***************************************************************************)
(* C5.  An update or a delete that names an id which is not in the         *)
(* collection is answered not-found (404; undefined from updateExpense)    *)
(* and leaves the whole storage object as it was.                          *)
(***************************************************************************)
C5_UnknownIdIsNoOp ==
    [][ /\ \A param \in IdParams(MaxCustomerId), body \in CustomerUpdates :
              /\ PutCustomer(param, body)
              /\ SchemaAccepts(CustomerColumns, TRUE, body)
              /\ ~MapHas(storage.customers, parseInt(param))
              => response'.status = 404 /\ storage' = storage
        /\ \A param \in IdParams(MaxCustomerId) :
              DeleteCustomer(param) /\ ~MapHas(storage.customers, parseInt(param))
              => response'.status = 404 /\ storage' = storage
        /\ \A param \in IdParams(MaxExpenseId) :
              DeleteExpense(param) /\ ~MapHas(storage.expenses, parseInt(param))
              => response'.status = 404 /\ storage' = storage
        /\ \A id \in 1..MaxExpenseId, updates \in ExpenseUpdates :
              CallUpdateExpense(id, updates) /\ ~MapHas(storage.expenses, id)
              => response'.body = Undefined /\ storage' = storage
      ]_vars

\* an update of a customer id that was deleted, with another customer stored
C5_Witness ==
    /\ request.route = "PUT /api/customers/:id"
    /\ response.status = 404
    /\ request.id \in removed.customers
    /\ storage.customers # <<>>

(***************************************************************************)
(* C6.  In every state of the store: a record that is created and then     *)
(* deleted by the returned id is reported deleted (true), is in no get and *)
(* no listing afterwards, the other records are as before the create, and  *)
(* a second delete of the id returns false.  An id deleted since the last  *)
(* reset is in no get and no listing.                                      *)
(***************************************************************************)
NotListed(list, id) == \A i \in 1..Len(list) : list[i].id # id

C6_DeletionRoundTrip ==
    /\ \A c \in CustomerInserts :
          LET made   == createCustomer(storage, c, now)
              first  == deleteCustomer(made.st, made.ret.id)
              second == deleteCustomer(first.st, made.ret.id)
          IN  /\ first.ret = TRUE
              /\ getCustomer(first.st, made.ret.id) = Undefined
              /\ NotListed(getAllCustomers(first.st), made.ret.id)
              /\ first.st.customers = storage.customers
              /\ first.st.expenses = storage.expenses
              /\ second.ret = FALSE
              /\ second.st = first.st
    /\ \A e \in ExpenseInserts :
          LET made   == createExpense(storage, e, now)
              first  == deleteExpense(made.st, made.ret.id)
              second == deleteExpense(first.st, made.ret.id)
          IN  /\ first.ret = TRUE
              /\ getExpense(first.st, made.ret.id) = Undefined
              /\ NotListed(getAllExpenses(first.st), made.ret.id)
              /\ first.st.expenses = storage.expenses
              /\ first.st.customers = storage.customers
              /\ second.ret = FALSE
              /\ second.st = first.st
    /\ \A id \in removed.customers :
          getCustomer(storage, id) = Undefined /\ NotListed(getAllCustomers(storage), id)
    /\ \A id \in removed.expenses :
          getExpense(storage, id) = Undefined /\ NotListed(getAllExpenses(storage), id)

\* the second delete of a customer id, answered not-found, with another
\* customer still stored
C6_Witness ==
    /\ request.route = "DELETE /api/customers/:id"
    /\ response.status = 404
    /\ request.id \in removed.customers
    /\ Len(storage.customers) = 1

(***************************************************************************)
(* C7.  A listing holds exactly the stored records, each once, newest      *)
(* createdAt first, and records of one instant in the order of their       *)
(* creation (ascending id), updated or not.                                *)
(***************************************************************************)
ListsNewestFirst(list, m) ==
    /\ Len(list) = Len(m)
    /\ { list[i] : i \in 1..Len(list) } = Records(m)
    /\ \A i, j \in 1..Len(list) : i < j =>
          \/ list[i].createdAt > list[j].createdAt
          \/ list[i].createdAt = list[j].createdAt /\ list[i].id < list[j].id

C7_ListingOrder ==
    /\ request.route = "GET /api/customers" =>
          response.status = 200 /\ ListsNewestFirst(response.body, storage.customers)
    /\ request.route = "GET /api/expenses" =>
          response.status = 200 /\ ListsNewestFirst(response.body, storage.expenses)

\* a listing of two customers of one instant, the first of them updated
C7_Witness ==
    /\ request.route = "GET /api/customers"
    /\ Len(response.body) = 2
    /\ response.body[1].createdAt = response.body[2].createdAt
    /\ response.body[1].amount = A020
    /\ response.body[2].amount = A100

\* a listing of two customers of different instants
C7_WitnessTwoInstants ==
    /\ request.route = "GET /api/customers"
    /\ Len(response.body) = 2
    /\ response.body[1].createdAt > response.body[2].createdAt

(***************************************************************************)
(* The home view (home.tsx): the daily-operations block.                   *)
(***************************************************************************)
TwoDigits(n) == <<DigitChars[((n \div 10) % 10) + 1], DigitChars[(n % 10) + 1]>>

FourDigits(n) == TwoDigits(n \div 100) \o TwoDigits(n % 100)

\* the calendar date of the day that is z days after 1 January 1970
CivilFromDays(z) ==
    LET z1  == z + 719468
        era == z1 \div 146097
        doe == z1 - era * 146097
        yoe == (doe - doe \div 1460 + doe \div 36524 - doe \div 146096) \div 365
        doy == doe - (365 * yoe + yoe \div 4 - yoe \div 100)
        mp  == (5 * doy + 2) \div 153
        m   == IF mp < 10 THEN mp + 3 ELSE mp - 9
    IN  [day   |-> doy - (153 * mp + 2) \div 5 + 1,
         month |-> m,
         year  |-> yoe + era * 400 + (IF m <= 2 THEN 1 ELSE 0)]

\* Intl.DateTimeFormat('en-GB', 2-digit day and month, numeric year): the
\* text dd/mm/yyyy; day 0 of the clock is 1 January 1970 in the viewer's zone
formatDate(date) ==
    LET c == CivilFromDays(date \div DayMs)
    IN  TwoDigits(c.day) \o <<"/">> \o TwoDigits(c.month) \o <<"/">> \o FourDigits(c.year)

\* A plain object {} used as a dictionary: its own properties, <<key, value>>
\* in the order of their creation.
OwnHas(o, k) == \E i \in 1..Len(o) : o[i][1] = k

OwnGet(o, k) == o[CHOOSE i \in 1..Len(o) : o[i][1] = k][2]

OwnSet(o, k, v) ==
    IF OwnHas(o, k)
    THEN [i \in 1..Len(o) |-> IF o[i][1] = k THEN <<k, v>> ELSE o[i]]
    ELSE Append(o, <<k, v>>)

\* property names that every object inherits from Object.prototype: acc[k]
\* is truthy for them although acc has no such property of its own
ObjectPrototypeKeys ==
    { "constructor", "toString", "toLocaleString", "valueOf", "hasOwnProperty",
      "isPrototypeOf", "propertyIsEnumerable", "__proto__", "__defineGetter__",
      "__defineSetter__", "__lookupGetter__", "__lookupSetter__" }

\* Object.values: the keys that are array indices (here: a name that is one
\* digit) come first, in ascending order, the other keys follow in the order
\* of their creation
IsArrayIndex(k) == IsDigit(k)

RECURSIVE IndexKeysAscending(_)
IndexKeysAscending(o) ==
    LET idx == { i \in 1..Len(o) : IsArrayIndex(o[i][1]) }
    IN  IF idx = {} THEN <<>>
        ELSE LET i == CHOOSE i \in idx : \A j \in idx : DigitVal(o[i][1]) <= DigitVal(o[j][1])
             IN  <<o[i]>> \o IndexKeysAscending(SelectSeq(o, LAMBDA e : e # o[i]))

ObjectEntries(o) ==
    IndexKeysAscending(o) \o SelectSeq(o, LAMBDA e : ~IsArrayIndex(e[1]))

ObjectValues(o) == [i \in 1..Len(o) |-> ObjectEntries(o)[i][2]]

\* customers.reduce((acc, customer) => { acc[formatDate(createdAt)].push(customer) }, {})
RECURSIVE customersByDate(_)
customersByDate(list) ==
    IF list = <<>> THEN <<>>
    ELSE LET acc      == customersByDate(SubSeq(list, 1, Len(list) - 1))
             customer == list[Len(list)]
             dateKey  == formatDate(customer.createdAt)
         IN  IF OwnHas(acc, dateKey)
             THEN OwnSet(acc, dateKey, Append(OwnGet(acc, dateKey), customer))
             ELSE OwnSet(acc, dateKey, <<customer>>)

\* the date keys without the slice: every date, newest first
recentDatesUnlimited(byDate, limit) ==
    LET keys   == [i \in 1..Len(byDate) |-> byDate[i][1]]
        tagged == [i \in 1..Len(keys) |->
                     [dateKey |-> keys[i], createdAt |-> OwnGet(byDate, keys[i])[1].createdAt]]
        sorted == SortNewestFirst(tagged)
    IN  [i \in 1..Len(sorted) |-> sorted[i].dateKey]

\* Object.keys(customersByDate).sort((a, b) => first createdAt of b - first
\* createdAt of a).slice(0, limit); no key dd/mm/yyyy is an array index, so
\* Object.keys lists them in the order of their creation
recentDates(byDate, limit) ==
    LET keys   == [i \in 1..Len(byDate) |-> byDate[i][1]]
        tagged == [i \in 1..Len(keys) |->
                     [dateKey |-> keys[i], createdAt |-> OwnGet(byDate, keys[i])[1].createdAt]]
        sorted == SortNewestFirst(tagged)
    IN  [i \in 1..(IF Len(sorted) < limit THEN Len(sorted) ELSE limit) |-> sorted[i].dateKey]

\* the grouping with goodsType overwritten by every entry
RECURSIVE groupedByNameLastGoodsType(_)
groupedByNameLastGoodsType(dateCustomers) ==
    IF dateCustomers = <<>> THEN [error |-> FALSE, acc |-> <<>>]
    ELSE LET before   == groupedByNameLastGoodsType(
                             SubSeq(dateCustomers, 1, Len(dateCustomers) - 1))
             customer == dateCustomers[Len(dateCustomers)]
             name     == customer.name
             group    == IF OwnHas(before.acc, name) THEN OwnGet(before.acc, name)
                         ELSE [name |-> name, goodsType |-> customer.goodsType,
                               totalCars |-> 0, totalAmount |-> Zero,
                               entries |-> <<>>, allPaid |-> TRUE]
         IN  IF before.error THEN before
             ELSE IF ~OwnHas(before.acc, name) /\ name \in ObjectPrototypeKeys
                  THEN [error |-> TRUE, acc |-> before.acc]
             ELSE [error |-> FALSE,
                   acc |-> OwnSet(before.acc, name,
                       [group EXCEPT
                          !.goodsType = customer.goodsType,
                          !.totalCars = @ + customer.carCount,
                          !.totalAmount = DAdd(@, parseFloat(customer.amount)),
                          !.entries = Append(@, customer),
                          !.allPaid = @ /\ customer.paymentStatus # "unpaid"])]

\* dateCustomers.reduce(...) into {}: error is TRUE when the reduce throws a
\* TypeError, which it does at a customer whose name is an inherited
\* property: !acc[name] is false, and acc[name].entries has no push
RECURSIVE groupedByName(_)
groupedByName(dateCustomers) ==
    IF dateCustomers = <<>> THEN [error |-> FALSE, acc |-> <<>>]
    ELSE LET before   == groupedByName(SubSeq(dateCustomers, 1, Len(dateCustomers) - 1))
             customer == dateCustomers[Len(dateCustomers)]
             name     == customer.name
             group    == IF OwnHas(before.acc, name) THEN OwnGet(before.acc, name)
                         ELSE [name |-> name, goodsType |-> customer.goodsType,
                               totalCars |-> 0, totalAmount |-> Zero,
                               entries |-> <<>>, allPaid |-> TRUE]
         IN  IF before.error THEN before
             ELSE IF ~OwnHas(before.acc, name) /\ name \in ObjectPrototypeKeys
                  THEN [error |-> TRUE, acc |-> before.acc]
             ELSE [error |-> FALSE,
                   acc |-> OwnSet(before.acc, name,
                       [group EXCEPT
                          !.totalCars = @ + customer.carCount,
                          !.totalAmount = DAdd(@, parseFloat(customer.amount)),
                          !.entries = Append(@, customer),
                          !.allPaid = @ /\ customer.paymentStatus # "unpaid"])]

\* customerGroups.reduce((sum, group) => sum + group.totalAmount, 0)
RECURSIVE totalDayAmount(_)
totalDayAmount(customerGroups) ==
    IF customerGroups = <<>> THEN Zero
    ELSE DAdd(totalDayAmount(SubSeq(customerGroups, 1, Len(customerGroups) - 1)),
              customerGroups[Len(customerGroups)].totalAmount)

\* what the block renders from the query: a notice while the query is
\* loading, another notice for an empty list, else one section per recent
\* date; a throw in one section fails the whole render
DailyOperations(loading, list, limit) ==
    IF loading THEN [state |-> "loading", sections |-> <<>>]
    ELSE IF list = <<>> THEN [state |-> "empty", sections |-> <<>>]
    ELSE LET byDate == customersByDate(list)
             recent == recentDates(byDate, limit)
             grouped == [i \in 1..Len(recent) |-> groupedByName(OwnGet(byDate, recent[i]))]
         IN  IF \E i \in 1..Len(recent) : grouped[i].error
             THEN [state |-> "TypeError", sections |-> <<>>]
             ELSE [state |-> "sections",
                   sections |-> [i \in 1..Len(recent) |->
                       [dateKey        |-> recent[i],
                        customerGroups |-> ObjectValues(grouped[i].acc),
                        totalDayAmount |-> totalDayAmount(ObjectValues(grouped[i].acc))]]]

(***************************************************************************)
(* The home view over a store that holds any list of well-formed customers.*)
(***************************************************************************)
MaxListLen == 3         \* at most this many customers are in the store
MaxDay     == 2         \* they were created on the days 0..MaxDay

\* customers as POST /api/customers accepts them: three plain names, a name
\* that is an array index, the name of an inherited property, amounts with
\* two fraction digits, and a paymentStatus that is neither paid nor unpaid
HomeInserts ==
    { [name |-> "A", goodsType |-> "X", carCount |-> 1, amount |-> A010,
       paymentStatus |-> "paid"],
      [name |-> "B", goodsType |-> "X", carCount |-> 2, amount |-> A020,
       paymentStatus |-> "unpaid"],
      [name |-> "B", goodsType |-> "Y", carCount |-> 1, amount |-> A030,
       paymentStatus |-> "paid"],
      [name |-> "A", goodsType |-> "Y", carCount |-> 1, amount |-> A010,
       paymentStatus |-> "pending"],
      [name |-> "1", goodsType |-> "X", carCount |-> 1, amount |-> A020,
       paymentStatus |-> "paid"],
      [name |-> "constructor", goodsType |-> "X", carCount |-> 1, amount |-> A100,
       paymentStatus |-> "paid"] }

\* instants of creation: midnight of each day, and 1 ms into day 0
HomeDates == { d * DayMs : d \in 0..MaxDay } \cup { 1 }

LatestDate(s) ==
    IF s.customers = <<>> THEN 0
    ELSE s.customers[Len(s.customers)][2].createdAt

\* the stores reached by n calls of createCustomer at instants that do not
\* decrease
RECURSIVE StoresAfter(_)
StoresAfter(n) ==
    IF n = 0 THEN {MemStorage}
    ELSE UNION { { createCustomer(s, c, d).st :
                     c \in HomeInserts,
                     d \in { e \in HomeDates : e >= LatestDate(s) } } :
                 s \in StoresAfter(n - 1) }

InitHome ==
    /\ storage \in UNION { StoresAfter(n) : n \in 0..MaxListLen }
    /\ now = LatestDate(storage)
    /\ request = [route |-> "none", id |-> 0]
    /\ response = [status |-> 0, body |-> NoBody]
    /\ issued = [customers |-> [i \in 1..Len(storage.customers) |-> i], expenses |-> <<>>]
    /\ removed = [customers |-> {}, expenses |-> {}]
    /\ customers = <<>>
    /\ customersLoading = TRUE
    /\ view = NotRendered
    /\ report = NotGenerated
    /\ pending = NonePending
    /\ InitialState

\* the "/api/customers" query resolves with the body of GET /api/customers
FetchCustomers ==
    /\ customers' = getAllCustomers(storage)
    /\ customersLoading' = FALSE
    /\ stale' = stale \ {"/api/customers"}
    /\ UNCHANGED <<view, report, expenses, summary, dialogVars, calcVars>>
    /\ UNCHANGED serverVars

\* React renders the block from the query data
Render ==
    /\ view' = DailyOperations(customersLoading, customers, 3)
    /\ UNCHANGED <<customers, customersLoading, report, queryVars, dialogVars, calcVars>>
    /\ UNCHANGED serverVars

NextHome ==
    \/ FetchCustomers
    \/ Render

SpecHome == InitHome /\ [][NextHome]_vars

(***************************************************************************)
(* Decimal reading of amounts: the hundredths that a text with at most two *)
(* fraction digits spells, and the double that JSON carries for a number   *)
(* of hundredths.                                                          *)
(***************************************************************************)
Hundredths(s) ==
    LET i2  == ScanDigits(s, 1)
        dot == i2 <= Len(s) /\ s[i2] = "."
        i3  == IF dot THEN ScanDigits(s, i2 + 1) ELSE i2
        k   == IF dot THEN i3 - (i2 + 1) ELSE 0
    IN  100 * DigitsValue(s, 1, i2 - 1)
          + (IF dot THEN DigitsValue(s, i2 + 1, i3 - 1) * Pow10(2 - k) ELSE 0)

RECURSIVE HundredthsOf(_)
HundredthsOf(list) ==
    IF list = <<>> THEN 0
    ELSE HundredthsOf(Tail(list)) + Hundredths(Head(list).amount)

Decimal(n) == NearestDouble(n < 0, IF n < 0 THEN 0 - n ELSE n, 100)

(***************************************************************************)
(* C8.  In every summary, netTotal is exactly totalRevenue minus           *)
(* totalExpenses: whenever the two totals are the decimal totals of the    *)
(* stored amounts, netTotal is the decimal difference of the two, also     *)
(* with no expense, with no customer, and with a negative difference.      *)
(***************************************************************************)
C8_NetTotalIsExactDifference ==
    request.route = "GET /api/summary" =>
        LET r == HundredthsOf(MapValues(storage.customers))
            e == HundredthsOf(MapValues(storage.expenses))
        IN  (/\ response.body.totalRevenue = Decimal(r)
             /\ response.body.totalExpenses = Decimal(e))
                => response.body.netTotal = Decimal(r - e)

(***************************************************************************)
(* C9.  Grouping by date and then by name, with no date left out, loses no *)
(* amount: the totalAmount of the name groups, added up per date and then  *)
(* over the dates, is the totalRevenue of the summary of the same list.    *)
(***************************************************************************)
DateKeysOf(list) == { formatDate(list[i].createdAt) : i \in 1..Len(list) }

NoDateOmitted == Len(view.sections) = Cardinality(DateKeysOf(customers))

RECURSIVE SumOfDays(_)
SumOfDays(sections) ==
    IF sections = <<>> THEN Zero
    ELSE DAdd(SumOfDays(SubSeq(sections, 1, Len(sections) - 1)),
              sections[Len(sections)].totalDayAmount)

C9_GroupingKeepsRevenue ==
    (view.state = "sections" /\ NoDateOmitted) =>
        DEq(SumOfDays(view.sections), Summary(customers, <<>>).totalRevenue)

(***************************************************************************)
(* C10.  The view of a non-empty customer list is a grouping of it; the    *)
(* totalCars of all (date, name) groups add up to the carCount of all      *)
(* transactions, and every transaction is an entry of exactly one group,   *)
(* the one of its own date key and name.                                   *)
(***************************************************************************)
GroupPlaces(sections) ==
    { <<i, j, k>> \in (1..Len(sections)) \X (1..MaxListLen + 1) \X (1..MaxListLen + 1) :
        /\ j <= Len(sections[i].customerGroups)
        /\ k <= Len(sections[i].customerGroups[j].entries) }

RECURSIVE SumOfCars(_)
SumOfCars(groups) ==
    IF groups = <<>> THEN 0
    ELSE SumOfCars(Tail(groups)) + Head(groups).totalCars

RECURSIVE CarsOfDays(_)
CarsOfDays(sections) ==
    IF sections = <<>> THEN 0
    ELSE CarsOfDays(Tail(sections)) + SumOfCars(Head(sections).customerGroups)

C10_GroupsPartitionTransactions ==
    view.state \in {"sections", "TypeError"} =>
        /\ view.state = "sections"
        /\ CarsOfDays(view.sections) = SumCars(customers)
        /\ \A n \in 1..Len(customers) :
              LET places == { p \in GroupPlaces(view.sections) :
                      view.sections[p[1]].customerGroups[p[2]].entries[p[3]] = customers[n] }
              IN  /\ Cardinality(places) = 1
                  /\ \A p \in places :
                        /\ view.sections[p[1]].dateKey = formatDate(customers[n].createdAt)
                        /\ view.sections[p[1]].customerGroups[p[2]].name = customers[n].name

(***************************************************************************)
(* C11.  In every (date, name) group of the view, allPaid is true exactly  *)
(* when every entry of the group has paymentStatus paid, and replacing the *)
(* paymentStatus of any one entry of an all-paid group by another status   *)
(* gives a group whose allPaid is false.                                   *)
(***************************************************************************)
OtherStatuses == { "unpaid", "pending" }

GroupsOf(sections) ==
    UNION { { sections[i].customerGroups[j] : j \in 1..Len(sections[i].customerGroups) } :
              i \in 1..Len(sections) }

EveryEntryPaid(entries) == \A k \in 1..Len(entries) : entries[k].paymentStatus = "paid"

C11_AllPaidIffEveryEntryPaid ==
    view.state = "sections" =>
        \A g \in GroupsOf(view.sections) :
            /\ g.allPaid <=> EveryEntryPaid(g.entries)
            /\ g.allPaid =>
                 \A k \in 1..Len(g.entries) : \A status \in OtherStatuses :
                    LET changed == [g.entries EXCEPT ![k].paymentStatus = status]
                    IN  ~ObjectValues(groupedByName(changed).acc)[1].allPaid

(***************************************************************************)
(* The write routes under bodies whose values have the types of the schema *)
(* but lie outside the data model.                                         *)
(***************************************************************************)
AMinus5 == <<"-", "5">>
Aabc    == <<"a", "b", "c">>

\* bodies of POST /api/customers: a well-formed one, and one with carCount
\* 0, a negative amount and a paymentStatus that is neither paid nor unpaid
AnyValueCustomerBodies ==
    { [name |-> JStr("B"), goodsType |-> JStr("Y"), carCount |-> JNum(2),
       amount |-> JStr(A100), paymentStatus |-> JStr("paid")],
      [name |-> JStr("A"), goodsType |-> JStr("X"), carCount |-> JNum(0),
       amount |-> JStr(AMinus5), paymentStatus |-> JStr("pending")] }

\* bodies of PUT /api/customers/:id
AnyValueCustomerUpdates ==
    { [amount |-> JStr(A020)],
      [amount |-> JStr(Aabc)],
      [carCount |-> JNum(0)] }

\* bodies of POST /api/expenses
AnyValueExpenseBodies ==
    { [description |-> JStr("fuel"), amount |-> JStr(A030)],
      [description |-> JStr("fuel"), amount |-> JStr(Aabc)] }

NextBoundary ==
    \/ \E body \in AnyValueCustomerBodies, date \in now..MaxNow : PostCustomers(body, date)
    \/ \E param \in IdParams(MaxCustomerId), body \in AnyValueCustomerUpdates :
          PutCustomer(param, body)
    \/ \E body \in AnyValueExpenseBodies, date \in now..MaxNow : PostExpenses(body, date)

SpecBoundary == Init /\ [][NextBoundary]_vars

(***************************************************************************)
(* C12.  Every stored record satisfies the data model: its amount is a     *)
(* decimal text of a value greater than 0, and a customer's carCount is an *)
(* integer of at least 1 and its paymentStatus is paid or unpaid.          *)
(***************************************************************************)
\* digits, optionally followed by "." and one or two digits, not all of
\* them 0
IsPositiveDecimal(s) ==
    LET i2  == ScanDigits(s, 1)
        dot == i2 <= Len(s) /\ s[i2] = "."
        i3  == IF dot THEN ScanDigits(s, i2 + 1) ELSE i2
    IN  /\ i2 > 1
        /\ i3 = Len(s) + 1
        /\ dot => i3 - (i2 + 1) \in 1..2
        /\ Hundredths(s) > 0

C12_StoredRecordsAreWellFormed ==
    /\ \A c \in Records(storage.customers) :
          /\ IsPositiveDecimal(c.amount)
          /\ c.carCount \in Nat /\ c.carCount >= 1
          /\ c.paymentStatus \in {"paid", "unpaid"}
    /\ \A e \in Records(storage.expenses) : IsPositiveDecimal(e.amount)

(***************************************************************************)
(* The home view over stores whose customers were created on many days.    *)
(***************************************************************************)
MaxDatedLen == 5        \* at most this many customers are in the store
MaxDatedDay == 4        \* they were created on the days 0..MaxDatedDay

DatedInsert ==
    [name |-> "A", goodsType |-> "X", carCount |-> 1, amount |-> A010,
     paymentStatus |-> "paid"]

\* instants of creation: midnight of each day, and 1 ms into day 0
DatedDates == { d * DayMs : d \in 0..MaxDatedDay } \cup { 1 }

RECURSIVE DatedStoresAfter(_)
DatedStoresAfter(n) ==
    IF n = 0 THEN {MemStorage}
    ELSE UNION { { createCustomer(s, DatedInsert, d).st :
                     d \in { e \in DatedDates : e >= LatestDate(s) } } :
                 s \in DatedStoresAfter(n - 1) }

InitDated ==
    /\ storage \in UNION { DatedStoresAfter(n) : n \in 0..MaxDatedLen }
    /\ now = LatestDate(storage)
    /\ request = [route |-> "none", id |-> 0]
    /\ response = [status |-> 0, body |-> NoBody]
    /\ issued = [customers |-> [i \in 1..Len(storage.customers) |-> i], expenses |-> <<>>]
    /\ removed = [customers |-> {}, expenses |-> {}]
    /\ customers = <<>>
    /\ customersLoading = TRUE
    /\ view = NotRendered
    /\ report = NotGenerated
    /\ pending = NonePending
    /\ InitialState

SpecDated == InitDated /\ [][NextHome]_vars

(***************************************************************************)
(* C13.  The view shows min(3, number of date keys) date partitions: the   *)
(* most recent calendar days of the list, the most recent one first, each  *)
(* once; every day it leaves out is older than every day it shows.         *)
(***************************************************************************)
Min(a, b) == IF a < b THEN a ELSE b

\* the day of the customers of a date key
DayOfKey(list, key) ==
    LET i == CHOOSE i \in 1..Len(list) : formatDate(list[i].createdAt) = key
    IN  list[i].createdAt \div DayMs

ShownKeys == { view.sections[i].dateKey : i \in 1..Len(view.sections) }

C13_ThreeMostRecentDays ==
    view.state = "sections" =>
        /\ Len(view.sections) = Min(3, Cardinality(DateKeysOf(customers)))
        /\ ShownKeys \subseteq DateKeysOf(customers)
        /\ \A i, j \in 1..Len(view.sections) : i < j =>
              DayOfKey(customers, view.sections[i].dateKey)
                > DayOfKey(customers, view.sections[j].dateKey)
        /\ \A k \in DateKeysOf(customers) \ ShownKeys : \A h \in ShownKeys :
              DayOfKey(customers, k) < DayOfKey(customers, h)

\* a list of more than 3 days is shown: 3 partitions, at least one day omitted
C13_Witness ==
    /\ view.state = "sections"
    /\ Cardinality(DateKeysOf(customers)) > 3
    /\ Len(view.sections) = 3

(***************************************************************************)
(* C14.  Within a date partition the name groups come in first-seen order: *)
(* group X precedes group Y exactly when the first customer named X comes  *)
(* before the first customer named Y in the list, whatever the names are.  *)
(***************************************************************************)
\* the customers of a date key, in the order of the list
CustomersOfKey(list, key) ==
    SelectSeq(list, LAMBDA c : formatDate(c.createdAt) = key)

FirstNamed(list, name) ==
    CHOOSE i \in 1..Len(list) :
        /\ list[i].name = name
        /\ \A j \in 1..(i - 1) : list[j].name # name

C14_GroupsInFirstSeenOrder ==
    view.state = "sections" =>
        \A n \in 1..Len(view.sections) :
            LET groups == view.sections[n].customerGroups
                input  == CustomersOfKey(customers, view.sections[n].dateKey)
            IN  \A i, j \in 1..Len(groups) :
                    i < j <=> FirstNamed(input, groups[i].name)
                                < FirstNamed(input, groups[j].name)

(***************************************************************************)
(* The report (generatePDFMutation): POST /api/generate-pdf answers with   *)
(* both lists, and onSuccess groups the customers of the answer by name.   *)
(***************************************************************************)
\* data.customers.reduce(...) into {}: one group per name over the whole
\* list; error is TRUE when the reduce throws a TypeError
RECURSIVE groupedCustomers(_)
groupedCustomers(list) ==
    IF list = <<>> THEN [error |-> FALSE, acc |-> <<>>]
    ELSE LET before   == groupedCustomers(SubSeq(list, 1, Len(list) - 1))
             customer == list[Len(list)]
             name     == customer.name
             group    == IF OwnHas(before.acc, name) THEN OwnGet(before.acc, name)
                         ELSE [name |-> name, goodsType |-> customer.goodsType,
                               totalCars |-> 0, totalAmount |-> Zero,
                               entries |-> <<>>]
         IN  IF before.error THEN before
             ELSE IF ~OwnHas(before.acc, name) /\ name \in ObjectPrototypeKeys
                  THEN [error |-> TRUE, acc |-> before.acc]
             ELSE [error |-> FALSE,
                   acc |-> OwnSet(before.acc, name,
                       [group EXCEPT
                          !.totalCars = @ + customer.carCount,
                          !.totalAmount = DAdd(@, parseFloat(customer.amount)),
                          !.entries = Append(@, customer)])]

\* the server's part: both lists and the instant of the answer
PostGeneratePdf ==
    /\ request' = [route |-> "POST /api/generate-pdf", id |-> 0]
    /\ response' = [status |-> 200,
                    body |-> [customers |-> getAllCustomers(storage),
                              expenses  |-> getAllExpenses(storage),
                              timestamp |-> now]]
    /\ UNCHANGED <<storage, now, issued, removed>>
    /\ UNCHANGED homeVars
    /\ UNCHANGED pending

\* the height of the default page of new jsPDF(): a4, in mm
PageBottom == 297

\* doc.text(..., y) on the current page
TextLine(page, y, kind) == [page |-> page, y |-> y, kind |-> kind]

\* if (yPosition > threshold) { doc.addPage(); yPosition = 20; }
NewPageBeyond(cursor, threshold) ==
    IF cursor.y > threshold THEN [cursor EXCEPT !.page = @ + 1, !.y = 20]
    ELSE cursor

\* the title, the date, "Operations:" and the forEach over the groups: the
\* page and yPosition after it, and the lines written so far
RECURSIVE LayoutGroups(_)
LayoutGroups(groups) ==
    IF groups = <<>>
    THEN [page |-> 1, y |-> 50 + 15,
          lines |-> << TextLine(1, 20, "title"), TextLine(1, 30, "date"),
                       TextLine(1, 50, "Operations:") >>]
    ELSE LET before == LayoutGroups(SubSeq(groups, 1, Len(groups) - 1))
             group  == groups[Len(groups)]
             at     == NewPageBeyond(before, 240)
         IN  [page  |-> at.page,
              y     |-> at.y + 40 + (Len(group.entries) * 8),
              lines |-> at.lines
                        \o << TextLine(at.page, at.y, "name"),
                              TextLine(at.page, at.y + 8, "Goods Type"),
                              TextLine(at.page, at.y + 16, "Total Cars"),
                              TextLine(at.page, at.y + 24, "Total Amount") >>
                        \o [entryIndex \in 1..Len(group.entries) |->
                              TextLine(at.page, at.y + 32 + ((entryIndex - 1) * 8),
                                       "Entry")]]

\* data.expenses.forEach(...), after the cursor start
RECURSIVE LayoutExpenses(_, _)
LayoutExpenses(start, expenseList) ==
    IF expenseList = <<>> THEN start
    ELSE LET before == LayoutExpenses(start, SubSeq(expenseList, 1, Len(expenseList) - 1))
             at     == NewPageBeyond(before, 250)
         IN  [page  |-> at.page,
              y     |-> at.y + 12,
              lines |-> Append(at.lines, TextLine(at.page, at.y, "expense"))]

\* every doc.text of generatePDF, in the order of the calls
Layout(groups, expenseList) ==
    LET afterGroups   == LayoutGroups(groups)
        expensesAt    == NewPageBeyond([afterGroups EXCEPT !.y = @ + 10], 240)
        afterHeading  == [expensesAt EXCEPT
                            !.y = @ + 15,
                            !.lines = Append(@, TextLine(expensesAt.page, expensesAt.y,
                                                         "Expenses:"))]
        afterExpenses == LayoutExpenses(afterHeading, expenseList)
        summaryAt     == NewPageBeyond([afterExpenses EXCEPT !.y = @ + 15], 240)
        y             == summaryAt.y + 15
    IN  summaryAt.lines
        \o << TextLine(summaryAt.page, summaryAt.y, "Summary:"),
              TextLine(summaryAt.page, y, "Total Revenue"),
              TextLine(summaryAt.page, y + 12, "Total Expenses"),
              TextLine(summaryAt.page, y + 24, "Net Total") >>

\* (summary?.key || 0), the number handed to toLocaleString
OrZero(object, key) ==
    IF key \notin DOMAIN object THEN Zero
    ELSE IF object[key].kind \in {"null", "NaN"} THEN Zero
    ELSE object[key]

\* the three totals of the summary section, read from the data of the
\* summary query
PrintedTotals(object) ==
    [totalRevenue  |-> OrZero(object, "totalRevenue"),
     totalExpenses |-> OrZero(object, "totalExpenses"),
     netTotal      |-> OrZero(object, "netTotal")]

\* onSuccess(data): the two lists of the answer, the groups that
\* generatePDF lays out, in the order of Object.values, the lines it writes
\* and the totals it prints
GeneratePDF ==
    /\ request.route = "POST /api/generate-pdf"
    /\ response.status = 200
    /\ LET grouped == groupedCustomers(response.body.customers)
           groups  == ObjectValues(grouped.acc)
       IN  report' = IF grouped.error
                     THEN [NotGenerated EXCEPT !.state = "TypeError"]
                     ELSE [state  |-> "groups",
                           customers |-> response.body.customers,
                           expenses  |-> response.body.expenses,
                           groups |-> groups,
                           lines  |-> Layout(groups, response.body.expenses),
                           totals |-> PrintedTotals(summary)]
    /\ UNCHANGED <<customers, customersLoading, view, queryVars, dialogVars, calcVars>>
    /\ UNCHANGED serverVars

\* customers of two names, one name with two goods types
ReportInserts ==
    { c \in HomeInserts : c.name \in {"A", "B"} /\ c.paymentStatus # "pending" }

RECURSIVE ReportStoresAfter(_)
ReportStoresAfter(n) ==
    IF n = 0 THEN {MemStorage}
    ELSE UNION { { createCustomer(s, c, d).st :
                     c \in ReportInserts,
                     d \in { e \in HomeDates : e >= LatestDate(s) } } :
                 s \in ReportStoresAfter(n - 1) }

InitReport ==
    /\ storage \in UNION { ReportStoresAfter(n) : n \in 0..MaxListLen }
    /\ now = LatestDate(storage)
    /\ request = [route |-> "none", id |-> 0]
    /\ response = [status |-> 0, body |-> NoBody]
    /\ issued = [customers |-> [i \in 1..Len(storage.customers) |-> i], expenses |-> <<>>]
    /\ removed = [customers |-> {}, expenses |-> {}]
    /\ customers = <<>>
    /\ customersLoading = TRUE
    /\ view = NotRendered
    /\ report = NotGenerated
    /\ pending = NonePending
    /\ InitialState

NextReport ==
    \/ FetchCustomers
    \/ Render
    \/ PostGeneratePdf
    \/ GeneratePDF

SpecReport == InitReport /\ [][NextReport]_vars

(***************************************************************************)
(* C15.  In the view (per date) and in the report (over the whole list) a  *)
(* name group has the goodsType of the first customer of that name in its  *)
(* scope, whatever the goodsType of the later ones, and its entries are    *)
(* all customers of that name in the scope, in their order.                *)
(***************************************************************************)
GroupOfFirstEntry(group, scope) ==
    /\ \E i \in 1..Len(scope) : scope[i].name = group.name
    /\ group.goodsType = scope[FirstNamed(scope, group.name)].goodsType
    /\ group.entries = SelectSeq(scope, LAMBDA c : c.name = group.name)

C15_GoodsTypeOfFirstEntry ==
    /\ view.state = "sections" =>
          \A n \in 1..Len(view.sections) :
              \A j \in 1..Len(view.sections[n].customerGroups) :
                  GroupOfFirstEntry(view.sections[n].customerGroups[j],
                                    CustomersOfKey(customers, view.sections[n].dateKey))
    /\ report.state = "groups" =>
          \A j \in 1..Len(report.groups) :
              GroupOfFirstEntry(report.groups[j], response.body.customers)

MixedGoodsTypes(group) ==
    \E k \in 2..Len(group.entries) : group.entries[k].goodsType # group.entries[1].goodsType

\* the view and the report each have a group whose later entries differ in
\* goodsType from its first one
C15_Witness ==
    /\ view.state = "sections"
    /\ \E g \in GroupsOf(view.sections) : MixedGoodsTypes(g)
    /\ report.state = "groups"
    /\ \E j \in 1..Len(report.groups) : MixedGoodsTypes(report.groups[j])

(***************************************************************************)
(* The home view next to a store that is written and reset.                *)
(***************************************************************************)
NextReset ==
    \/ \E body \in CustomerBodies, date \in now..MaxNow : PostCustomers(body, date)
    \/ \E body \in ExpenseBodies, date \in now..MaxNow : PostExpenses(body, date)
    \/ ClearAll
    \/ GetSummary
    \/ FetchCustomers
    \/ Render

SpecReset == Init /\ [][NextReset]_vars

(***************************************************************************)
(* C16.  With no customer and no expense in the store, also right after a  *)
(* reset, GET /api/summary answers 200 with every total and count 0, and   *)
(* a render of the resolved empty customer list shows no date partition.   *)
(***************************************************************************)
ZeroSummary ==
    [totalRevenue |-> Zero, totalExpenses |-> Zero, netTotal |-> Zero,
     totalCars |-> 0, customerCount |-> 0, expenseCount |-> 0]

C16_EmptyListsGiveZeros ==
    /\ [](request.route = "GET /api/summary"
            /\ storage.customers = <<>> /\ storage.expenses = <<>>
          => response = [status |-> 200, body |-> ZeroSummary])
    /\ [][(customers = <<>> /\ ~customersLoading /\ view' # view)
            => view' = [state |-> "empty", sections |-> <<>>]]_vars

\* after a reset of a store that held records: the summary is asked for and
\* the list, fetched again, is rendered as empty
C16_Witness ==
    /\ request.route = "GET /api/summary"
    /\ now > 0
    /\ storage.customers = <<>> /\ storage.expenses = <<>>
    /\ response.body = ZeroSummary
    /\ customers = <<>> /\ ~customersLoading
    /\ view.state = "empty"

(***************************************************************************)
(* C17.  A summary computation is a pure read: the request leaves both     *)
(* collections and both id counters as they were, its answer is a function *)
(* of the store alone, and a summary that directly follows a summary       *)
(* returns the same answer.                                                *)
(***************************************************************************)
C17_SummaryIsPureRead ==
    [][ request'.route = "GET /api/summary" =>
          /\ storage' = storage
          /\ response' = [status |-> 200,
                          body |-> Summary(getAllCustomers(storage'), getAllExpenses(storage'))]
          /\ request.route = "GET /api/summary" => response' = response
      ]_<<storage, request, response>>

\* a summary of a store that holds records in both collections, one of them
\* updated
C17_Witness ==
    /\ request.route = "GET /api/summary"
    /\ response.body.customerCount = 2
    /\ response.body.expenseCount = 1
    /\ response.body.totalRevenue = DAdd(parseFloat(A100), parseFloat(A020))

(***************************************************************************)
(* Requests in flight together.  A storage method runs from its call to    *)
(* its return without a break; a handler can be suspended at each await.   *)
(* The write handlers touch the store in one call.  GET /api/summary and   *)
(* POST /api/generate-pdf await getAllCustomers and then getAllExpenses:   *)
(* the handlers of other requests can run between the two reads.           *)
(***************************************************************************)
TwoReadRoutes == { "GET /api/summary", "POST /api/generate-pdf" }

\* the handler up to its second await: const customers = await
\* storage.getAllCustomers()
ReadCustomers(route) ==
    /\ pending.route = "none"
    /\ pending' = [route |-> route, customers |-> getAllCustomers(storage),
                   first |-> storage, second |-> storage]
    /\ UNCHANGED <<storage, now, request, response, issued, removed>>
    /\ UNCHANGED homeVars

\* the rest of the handler: const expenses = await storage.getAllExpenses()
\* and the response
ReadExpenses ==
    /\ pending.route # "none"
    /\ request' = [route |-> pending.route, id |-> 0]
    /\ response' =
          [status |-> 200,
           body |-> IF pending.route = "GET /api/summary"
                    THEN Summary(pending.customers, getAllExpenses(storage))
                    ELSE [customers |-> pending.customers,
                          expenses  |-> getAllExpenses(storage),
                          timestamp |-> now]]
    /\ pending' = [pending EXCEPT !.route = "none", !.customers = <<>>,
                                  !.second = storage]
    /\ UNCHANGED <<storage, now, issued, removed>>
    /\ UNCHANGED homeVars

NextConcurrent ==
    \/ \E route \in TwoReadRoutes : ReadCustomers(route)
    \/ ReadExpenses
    \/ \E body \in CustomerBodies, date \in now..MaxNow : PostCustomers(body, date)
    \/ \E body \in ExpenseBodies, date \in now..MaxNow : PostExpenses(body, date)
    \/ \E param \in IdParams(MaxExpenseId) : DeleteExpense(param)
    \/ ClearAll

SpecConcurrent == Init /\ [][NextConcurrent]_vars

(***************************************************************************)
(* C18.  A summary (or report data) request computes its answer from a     *)
(* customer list and an expense list of one and the same store state: the  *)
(* store at its second read is the store at its first read, whatever other *)
(* requests are in flight, and a completed GET /api/summary is the summary *)
(* of that one state.                                                      *)
(***************************************************************************)
C18_ReadsOfOneStoreState ==
    /\ pending.second = pending.first
    /\ (pending.route = "none" /\ request.route = "GET /api/summary") =>
          response.body = Summary(getAllCustomers(pending.first),
                                  getAllExpenses(pending.first))

(***************************************************************************)
(* C19.  Failures at the HTTP boundary are answers.  As stated: every PUT  *)
(* or DELETE that names an id absent from the store is answered 404 and    *)
(* leaves the store unchanged, and every POST or PUT whose body fails the  *)
(* schema is answered 400 and writes nothing to the store.                 *)
(***************************************************************************)
Answered(status) == response'.status = status /\ storage' = storage

\* the body lacks a column that is required, or has a column with a value
\* of another JSON type than the column's
FailsSchema(columns, partial, body) ==
    \/ \E k \in DOMAIN columns \cap DOMAIN body : body[k].t # columns[k]
    \/ ~partial /\ \E k \in DOMAIN columns : k \notin DOMAIN body

AbsentIdsAnswered404(onlyValidBodies) ==
    /\ \A param \in IdParams(MaxCustomerId), body \in CustomerUpdates :
          /\ PutCustomer(param, body)
          /\ ~MapHas(storage.customers, parseInt(param))
          /\ onlyValidBodies => ~FailsSchema(CustomerColumns, TRUE, body)
          => Answered(404)
    /\ \A param \in IdParams(MaxCustomerId) :
          DeleteCustomer(param) /\ ~MapHas(storage.customers, parseInt(param))
          => Answered(404)
    /\ \A param \in IdParams(MaxExpenseId) :
          DeleteExpense(param) /\ ~MapHas(storage.expenses, parseInt(param))
          => Answered(404)

InvalidBodiesAnswered400 ==
    /\ \A body \in CustomerBodies, date \in now..MaxNow :
          PostCustomers(body, date) /\ FailsSchema(CustomerColumns, FALSE, body)
          => Answered(400)
    /\ \A param \in IdParams(MaxCustomerId), body \in CustomerUpdates :
          PutCustomer(param, body) /\ FailsSchema(CustomerColumns, TRUE, body)
          => Answered(400)
    /\ \A body \in ExpenseBodies, date \in now..MaxNow :
          PostExpenses(body, date) /\ FailsSchema(ExpenseColumns, FALSE, body)
          => Answered(400)

C19_FailuresAreAnswers_AsStated ==
    [][AbsentIdsAnswered404(FALSE) /\ InvalidBodiesAnswered400]_vars

(***************************************************************************)
(* C19, amended.  The body is validated before the id is looked up: every  *)
(* POST or PUT whose body fails the schema is answered 400 and writes      *)
(* nothing, whether or not the id of the PUT is in the store; every PUT    *)
(* with a valid body and every DELETE that names an absent id is answered  *)
(* 404 and leaves the store unchanged.                                     *)
(***************************************************************************)
C19_FailuresAreAnswers ==
    [][AbsentIdsAnswered404(TRUE) /\ InvalidBodiesAnswered400]_vars

\* a PUT with an invalid body to an id that is not stored, answered 400,
\* while another customer is stored
C19_Witness ==
    /\ request.route = "PUT /api/customers/:id"
    /\ response.status = 400
    /\ ~MapHas(storage.customers, request.id)
    /\ storage.customers # <<>>

(***************************************************************************)
(* The summary route and the home view over the stores of InitHome.        *)
(***************************************************************************)
NextSums ==
    \/ GetSummary
    \/ FetchCustomers
    \/ Render

SpecSums == InitHome /\ [][NextSums]_vars

(***************************************************************************)
(* C20.  Sums of amounts of at most two fraction digits are exact: the     *)
(* totalRevenue and totalExpenses of a summary and the totalAmount of      *)
(* every group of the view are the decimal sums of the amounts they add.   *)
(***************************************************************************)
C20_SumsAreExactDecimals ==
    /\ request.route = "GET /api/summary" =>
          /\ response.body.totalRevenue
                = Decimal(HundredthsOf(MapValues(storage.customers)))
          /\ response.body.totalExpenses
                = Decimal(HundredthsOf(MapValues(storage.expenses)))
    /\ view.state = "sections" =>
          \A g \in GroupsOf(view.sections) :
              g.totalAmount = Decimal(HundredthsOf(g.entries))

(***************************************************************************)
(* C21.  The report groups by date key and then by name, over all dates:   *)
(* every customer of the report data is an entry of a group, and two       *)
(* customers are entries of the same group exactly when their date keys    *)
(* are equal and their names are equal.                                    *)
(***************************************************************************)
ReportPlaces ==
    { <<j, k>> \in (1..MaxListLen + 1) \X (1..MaxListLen + 1) :
        j <= Len(report.groups) /\ k <= Len(report.groups[j].entries) }

C21_ReportGroupsByDateAndName ==
    report.state = "groups" =>
        /\ \A n \in 1..Len(response.body.customers) :
              \E p \in ReportPlaces :
                  report.groups[p[1]].entries[p[2]] = response.body.customers[n]
        /\ \A p, q \in ReportPlaces :
              LET c == report.groups[p[1]].entries[p[2]]
                  d == report.groups[q[1]].entries[q[2]]
              IN  p[1] = q[1] <=> /\ formatDate(c.createdAt) = formatDate(d.createdAt)
                                  /\ c.name = d.name

(***************************************************************************)
(* The layout of the report over stores with long name groups: every       *)
(* customer was created at the same instant, LayoutNames name them.        *)
(***************************************************************************)
MaxLaidOut == 27        \* at most this many customers are in the store

LayoutNames == <<"A", "B">>

\* n more customers of one name
RECURSIVE StoreWithCustomers(_, _, _)
StoreWithCustomers(s, name, n) ==
    IF n = 0 THEN s
    ELSE createCustomer(StoreWithCustomers(s, name, n - 1),
                        [name |-> name, goodsType |-> "X", carCount |-> 1,
                         amount |-> A100, paymentStatus |-> "paid"], 0).st

\* n more expenses
RECURSIVE StoreWithExpenses(_, _)
StoreWithExpenses(s, n) ==
    IF n = 0 THEN s
    ELSE createExpense(StoreWithExpenses(s, n - 1),
                       [description |-> "fuel", amount |-> A030], 0).st

InitLayout ==
    /\ \E a, b \in 0..MaxLaidOut, e \in 0..1 :
          /\ a + b <= MaxLaidOut
          /\ storage = StoreWithExpenses(
                        StoreWithCustomers(
                            StoreWithCustomers(MemStorage, LayoutNames[1], a),
                            LayoutNames[2], b), e)
    /\ now = 0
    /\ request = [route |-> "none", id |-> 0]
    /\ response = [status |-> 0, body |-> NoBody]
    /\ issued = [customers |-> [i \in 1..Len(storage.customers) |-> i],
                 expenses  |-> [i \in 1..Len(storage.expenses) |-> i]]
    /\ removed = [customers |-> {}, expenses |-> {}]
    /\ customers = <<>>
    /\ customersLoading = TRUE
    /\ view = NotRendered
    /\ report = NotGenerated
    /\ pending = NonePending
    /\ InitialState

NextLayout ==
    \/ PostGeneratePdf
    \/ GeneratePDF

SpecLayout == InitLayout /\ [][NextLayout]_vars

(***************************************************************************)
(* C22.  No text line of a generated report is placed below the bottom of  *)
(* the page (297), whatever the number of entries of a name group: a new   *)
(* page is started whenever the cursor would pass the threshold.           *)
(***************************************************************************)
C22_NoLineBelowThePage ==
    report.state = "groups" =>
        \A i \in 1..Len(report.lines) : report.lines[i].y <= PageBottom

(***************************************************************************)
(* The date headers of the home view: a click on a header that is shown    *)
(* toggles its date key in expandedDates.  The customers are written by    *)
(* the routes, on the days 0..MaxExpandedDay.                              *)
(***************************************************************************)
MaxExpandedDay == 1     \* customers are created on the days 0..MaxExpandedDay

\* the handler that only ever adds the key
ToggledDatesAddOnly(set, dateKey) == set \cup {dateKey}

\* newExpanded of the onClick: a copy of expandedDates with dateKey deleted
\* if the header is expanded and added otherwise
ToggledDates(set, dateKey) ==
    IF dateKey \in set THEN set \ {dateKey} ELSE set \cup {dateKey}

\* the date keys of the headers of the last render
ShownDateKeys == { view.sections[i].dateKey : i \in 1..Len(view.sections) }

\* onClick of the header of dateKey; the headers are those of the render
\* that followed the last change of the list
ToggleDate(dateKey) ==
    /\ view = DailyOperations(customersLoading, customers, 3)
    /\ view.state = "sections"
    /\ dateKey \in ShownDateKeys
    /\ expandedDates' = ToggledDates(expandedDates, dateKey)
    /\ UNCHANGED <<customers, customersLoading, view, report, queryVars, calcVars>>
    /\ UNCHANGED <<showCustomerDialog, editingCustomer>>
    /\ UNCHANGED serverVars

\* every date key that a header can have
ExpandedDateKeys == { formatDate(d * DayMs) : d \in 0..MaxExpandedDay }

NextExpanded ==
    \/ \E body \in CustomerBodies, d \in 0..MaxExpandedDay :
          /\ d * DayMs >= now
          /\ PostCustomers(body, d * DayMs)
    \/ \E param \in IdParams(MaxCustomerId) : DeleteCustomer(param)
    \/ ClearAll
    \/ FetchCustomers
    \/ Render
    \/ \E dateKey \in ExpandedDateKeys : ToggleDate(dateKey)

SpecExpanded == Init /\ [][NextExpanded]_vars

(***************************************************************************)
(* C23.  A click on a date header adds its key to the expanded set if it   *)
(* is absent and removes it if it is present, leaves the membership of     *)
(* every other key as it was, and triggers no store operation; toggling    *)
(* the same header twice gives the set back.                               *)
(***************************************************************************)
ExpandedSetChangesByOneShownKey ==
    expandedDates' # expandedDates =>
        /\ \E dateKey \in ShownDateKeys :
              /\ dateKey \in expandedDates' <=> dateKey \notin expandedDates
              /\ expandedDates' \ {dateKey} = expandedDates \ {dateKey}
        /\ UNCHANGED <<storage, request, response>>

TwiceRestores ==
    \A dateKey \in ShownDateKeys :
        /\ ToggledDates(expandedDates, dateKey) # expandedDates
        /\ ToggledDates(ToggledDates(expandedDates, dateKey), dateKey) = expandedDates

C23_ToggleOfTheExpandedSet ==
    /\ []TwiceRestores
    /\ [][ExpandedSetChangesByOneShownKey]_vars

\* two headers are shown, one of them expanded
C23_Witness ==
    /\ Cardinality(ShownDateKeys) = 2
    /\ Cardinality(expandedDates) = 1
    /\ expandedDates \subseteq ShownDateKeys

(***************************************************************************)
(* C26.  The expanded set only contains date keys of the date partitions   *)
(* that are displayed: once the view shows the current list, every key of  *)
(* the set is the key of a header.                                         *)
(***************************************************************************)
C26_ExpandedKeysAreDisplayed ==
    (/\ ~customersLoading
     /\ customers = getAllCustomers(storage)
     /\ view = DailyOperations(customersLoading, customers, 3))
        => expandedDates \subseteq ShownDateKeys

(***************************************************************************)
(* The writes of the home view: each mutation calls its route and, when    *)
(* the answer is a success, runs onSuccess, which invalidates queries and  *)
(* closes the customer dialog.  apiRequest rejects an answer whose status  *)
(* is not 2xx, and then onSuccess does not run.  The expense dialog, the   *)
(* clear dialog and the toasts are not part of the state.                  *)
(***************************************************************************)
\* `${id}` in the path of a request, for an id of one digit
IdText(id) == <<DigitChars[id + 1]>>

\* what the customer form submits
CustomerFormData ==
    { [name |-> JStr("A"), goodsType |-> JStr("X"), carCount |-> JNum(1),
       amount |-> JStr(A100), paymentStatus |-> JStr("paid")] }

\* what the expense form submits
ExpenseFormData ==
    { [description |-> JStr("fuel"), amount |-> JStr(A030)] }

\* onSuccess of deleteCustomerMutation without the summary query
CustomerWriteInvalidatesListOnly == {"/api/customers"}

\* the queries that onSuccess of a customer mutation invalidates
CustomerWriteInvalidates == {"/api/customers", "/api/summary"}

\* the queries that onSuccess of an expense mutation invalidates
ExpenseWriteInvalidates == {"/api/expenses", "/api/summary"}

\* the queries that onSuccess of clearAllDataMutation invalidates
ClearAllInvalidates == {"/api/customers", "/api/expenses", "/api/summary"}

\* what no handler of the writes changes
WritesFrame ==
    /\ UNCHANGED <<customers, customersLoading, view, report, expenses, summary>>
    /\ UNCHANGED <<expandedDates, calcVars, pending>>

\* onOpenChange={setShowCustomerDialog}: the trigger opens the dialog, a
\* dismiss (Escape, a click outside, the close cross) closes it
SetShowCustomerDialog(open) ==
    /\ showCustomerDialog # open
    /\ showCustomerDialog' = open
    /\ UNCHANGED <<customers, customersLoading, view, report, queryVars>>
    /\ UNCHANGED <<editingCustomer, expandedDates, calcVars>>
    /\ UNCHANGED serverVars

\* the edit button of a customer of the list; the open dialog is modal
handleEditCustomer(customer) ==
    /\ ~showCustomerDialog
    /\ editingCustomer' = customer
    /\ showCustomerDialog' = TRUE
    /\ UNCHANGED <<customers, customersLoading, view, report, queryVars>>
    /\ UNCHANGED <<expandedDates, calcVars>>
    /\ UNCHANGED serverVars

\* the cancel button of the dialog
handleCloseCustomerDialog ==
    /\ showCustomerDialog
    /\ showCustomerDialog' = FALSE
    /\ editingCustomer' = Null
    /\ UNCHANGED <<customers, customersLoading, view, report, queryVars>>
    /\ UNCHANGED <<expandedDates, calcVars>>
    /\ UNCHANGED serverVars

\* the submit of the customer form: updateCustomerMutation when
\* editingCustomer is set, createCustomerMutation otherwise
onCustomerSubmit(data, date) ==
    /\ showCustomerDialog
    /\ IF editingCustomer # Null
       THEN /\ PutCustomerHandler(IdText(editingCustomer.id), data)
            /\ IF response'.status = 200
               THEN /\ stale' = stale \cup CustomerWriteInvalidates
                    /\ editingCustomer' = Null
                    /\ showCustomerDialog' = FALSE
               ELSE UNCHANGED <<stale, editingCustomer, showCustomerDialog>>
       ELSE /\ PostCustomersHandler(data, date)
            /\ IF response'.status = 201
               THEN /\ stale' = stale \cup CustomerWriteInvalidates
                    /\ showCustomerDialog' = FALSE
                    /\ UNCHANGED editingCustomer
               ELSE UNCHANGED <<stale, editingCustomer, showCustomerDialog>>
    /\ WritesFrame

\* the delete button of a customer of the list
deleteCustomerMutation(id) ==
    /\ \E i \in 1..Len(customers) : customers[i].id = id
    /\ DeleteCustomerHandler(IdText(id))
    /\ stale' = IF response'.status = 200 THEN stale \cup CustomerWriteInvalidates
                ELSE stale
    /\ UNCHANGED <<showCustomerDialog, editingCustomer>>
    /\ WritesFrame

\* the submit of the expense form
onExpenseSubmit(data, date) ==
    /\ PostExpensesHandler(data, date)
    /\ stale' = IF response'.status = 201 THEN stale \cup ExpenseWriteInvalidates
                ELSE stale
    /\ UNCHANGED <<showCustomerDialog, editingCustomer>>
    /\ WritesFrame

\* the delete button of an expense of the list
deleteExpenseMutation(id) ==
    /\ \E i \in 1..Len(expenses) : expenses[i].id = id
    /\ DeleteExpenseHandler(IdText(id))
    /\ stale' = IF response'.status = 200 THEN stale \cup ExpenseWriteInvalidates
                ELSE stale
    /\ UNCHANGED <<showCustomerDialog, editingCustomer>>
    /\ WritesFrame

\* the confirm button of the clear dialog
clearAllDataMutation ==
    /\ ClearAllHandler
    /\ stale' = IF response'.status = 200 THEN stale \cup ClearAllInvalidates
                ELSE stale
    /\ UNCHANGED <<showCustomerDialog, editingCustomer>>
    /\ WritesFrame

\* the "/api/expenses" query resolves with the body of GET /api/expenses
FetchExpenses ==
    /\ expenses' = getAllExpenses(storage)
    /\ stale' = stale \ {"/api/expenses"}
    /\ UNCHANGED <<customers, customersLoading, view, report, summary>>
    /\ UNCHANGED <<dialogVars, calcVars>>
    /\ UNCHANGED serverVars

\* the "/api/summary" query resolves with the body of GET /api/summary
FetchSummary ==
    /\ summary' = Summary(getAllCustomers(storage), getAllExpenses(storage))
    /\ stale' = stale \ {"/api/summary"}
    /\ UNCHANGED <<customers, customersLoading, view, report, expenses>>
    /\ UNCHANGED <<dialogVars, calcVars>>
    /\ UNCHANGED serverVars

NextWrites ==
    \/ \E open \in BOOLEAN : SetShowCustomerDialog(open)
    \/ \E i \in 1..MaxCustomerId : i <= Len(customers) /\ handleEditCustomer(customers[i])
    \/ handleCloseCustomerDialog
    \/ \E data \in CustomerFormData, date \in now..MaxNow : onCustomerSubmit(data, date)
    \/ \E id \in 1..MaxCustomerId : deleteCustomerMutation(id)
    \/ \E data \in ExpenseFormData, date \in now..MaxNow : onExpenseSubmit(data, date)
    \/ \E id \in 1..MaxExpenseId : deleteExpenseMutation(id)
    \/ clearAllDataMutation
    \/ FetchCustomers
    \/ FetchExpenses
    \/ FetchSummary

SpecWrites == Init /\ [][NextWrites]_vars

(***************************************************************************)
(* C24.  Whenever the customer dialog is closed, editingCustomer is null,  *)
(* whichever way it was closed.                                            *)
(***************************************************************************)
C24_ClosedDialogHasNoEditingCustomer ==
    ~showCustomerDialog => editingCustomer = Null

(***************************************************************************)
(* C27.  Every successful write of the home view invalidates the summary   *)
(* query and the list query of every collection it changed; hence a query  *)
(* that has been refetched since the last write that concerned it shows    *)
(* the state of the store, and when no query is left to refetch the lists  *)
(* and the summary equal the store's state.                                *)
(***************************************************************************)
CustomerWriteRoutes ==
    {"POST /api/customers", "PUT /api/customers/:id", "DELETE /api/customers/:id"}

ExpenseWriteRoutes == {"POST /api/expenses", "DELETE /api/expenses/:id"}

SuccessfulWriteInvalidates ==
    (/\ <<request, response>>' # <<request, response>>
     /\ response'.status \in {200, 201})
        => /\ "/api/summary" \in stale'
           /\ request'.route \in CustomerWriteRoutes => "/api/customers" \in stale'
           /\ request'.route \in ExpenseWriteRoutes => "/api/expenses" \in stale'
           /\ request'.route = "DELETE /api/clear-all"
                 => {"/api/customers", "/api/expenses"} \subseteq stale'
           /\ storage'.customers # storage.customers => "/api/customers" \in stale'
           /\ storage'.expenses # storage.expenses => "/api/expenses" \in stale'

RefetchedQueriesShowTheStore ==
    /\ "/api/customers" \notin stale => customers = getAllCustomers(storage)
    /\ "/api/expenses" \notin stale => expenses = getAllExpenses(storage)
    /\ "/api/summary" \notin stale
          => summary = Summary(getAllCustomers(storage), getAllExpenses(storage))

C27_WritesInvalidateWhatTheyChange ==
    /\ []RefetchedQueriesShowTheStore
    /\ [][SuccessfulWriteInvalidates]_vars

\* a customer was updated after an expense was added, and every query has
\* been refetched
C27_Witness ==
    /\ stale = {}
    /\ request.route = "PUT /api/customers/:id"
    /\ response.status = 200
    /\ expenses # <<>>
    /\ customers # <<>>

(***************************************************************************)
(* The report next to the summary query: the store holds some customers,   *)
(* the home view deletes customers or clears the data, refetches, and      *)
(* generates reports.                                                      *)
(***************************************************************************)
NextTotals ==
    \/ \E id \in 1..MaxCustomerId : deleteCustomerMutation(id)
    \/ clearAllDataMutation
    \/ FetchCustomers
    \/ FetchSummary
    \/ PostGeneratePdf
    \/ GeneratePDF

SpecTotals == InitReport /\ [][NextTotals]_vars

(***************************************************************************)
(* C25.  The totals printed in the summary section of a report (revenue,   *)
(* expenses, net) equal the totals of the customers and expenses listed    *)
(* in that same report.                                                    *)
(***************************************************************************)
C25_PrintedTotalsAreThoseOfTheReport ==
    report.state = "groups" =>
        LET listed == PrintedTotals(Summary(report.customers, report.expenses))
        IN  /\ DEq(report.totals.totalRevenue, listed.totalRevenue)
            /\ DEq(report.totals.totalExpenses, listed.totalExpenses)
            /\ DEq(report.totals.netTotal, listed.netTotal)

(***************************************************************************)
(* C28.  The two collections are independent: a customer operation never   *)
(* changes the expenses or the expense id counter, an expense operation    *)
(* never changes the customers or the customer id counter, and only        *)
(* clearAllData changes both collections in one step.                      *)
(***************************************************************************)
CustomersPart(s) == <<s.customers, s.currentCustomerId>>

ExpensesPart(s) == <<s.expenses, s.currentExpenseId>>

CollectionsAreIndependent ==
    /\ request'.route \in CustomerWriteRoutes
          => ExpensesPart(storage') = ExpensesPart(storage)
    /\ request'.route \in ExpenseWriteRoutes \cup {"storage.updateExpense"}
          => CustomersPart(storage') = CustomersPart(storage)
    /\ (/\ CustomersPart(storage') # CustomersPart(storage)
        /\ ExpensesPart(storage') # ExpensesPart(storage))
          => request'.route = "DELETE /api/clear-all"

C28_CollectionsAreIndependent == [][CollectionsAreIndependent]_vars

\* a customer was created after an expense, and updated
C28_Witness ==
    /\ request.route = "PUT /api/customers/:id"
    /\ response.status = 200
    /\ storage.expenses # <<>>
    /\ storage.currentCustomerId > storage.currentExpenseId

(***************************************************************************)
(* The calculator.  Its numbers are followed on the doubles that are       *)
(* multiples of 1/CalcUnit up to MaxResult, the infinities and NaN: on     *)
(* these + - * / are exact, and String(x) is the finite decimal expansion  *)
(* of x.  The digit keys pressed are "0" and "5", so that every text that  *)
(* is typed is a multiple of one half; a key press whose operand or result *)
(* is another double is not followed.  "*" stands for the key of           *)
(* multiplication and "/" for the key of division.                         *)
(***************************************************************************)
CalcUnit == 4           \* the numbers followed are multiples of 1/CalcUnit
MaxResult == 20         \* and at most this large
MaxDisplayLen == 3      \* at most this many characters are typed

CalcDigitKeys == {"0", "5"}

CalcOperatorKeys == {"+", "-", "*", "/"}

CalcNum(neg, mag) == [kind |-> "num", neg |-> neg, mag |-> mag]

CalcNaN == [kind |-> "NaN", neg |-> FALSE, mag |-> 0]

CalcInfinity(neg) == [kind |-> "Infinity", neg |-> neg, mag |-> 0]

\* a double that is not followed
CalcOutside == [kind |-> "outside", neg |-> FALSE, mag |-> 0]

InDomain(v) ==
    /\ v.kind # "outside"
    /\ v.kind = "num" => v.mag <= MaxResult * CalcUnit

NaNText == <<"N", "a", "N">>

InfinityText == <<"I", "n", "f", "i", "n", "i", "t", "y">>

RECURSIVE DecimalText(_)
DecimalText(n) ==
    IF n < 10 THEN <<DigitChars[n + 1]>>
    ELSE DecimalText(n \div 10) \o <<DigitChars[(n % 10) + 1]>>

\* the decimal digits of num / den, which is less than 1
RECURSIVE FractionText(_, _)
FractionText(num, den) ==
    IF num = 0 THEN <<>>
    ELSE <<DigitChars[((num * 10) \div den) + 1]>> \o FractionText((num * 10) % den, den)

\* String(result)
StringOf(v) ==
    IF v.kind = "NaN" THEN NaNText
    ELSE IF v.kind = "Infinity"
         THEN (IF v.neg THEN <<"-">> ELSE <<>>) \o InfinityText
    ELSE (IF v.neg /\ v.mag # 0 THEN <<"-">> ELSE <<>>)
         \o DecimalText(v.mag \div CalcUnit)
         \o (IF v.mag % CalcUnit = 0 THEN <<>>
             ELSE <<".">> \o FractionText(v.mag % CalcUnit, CalcUnit))

\* parseFloat(display), for the texts that the display holds
ParseDisplay(text) ==
    IF text = NaNText THEN CalcNaN
    ELSE IF text = InfinityText THEN CalcInfinity(FALSE)
    ELSE IF text = <<"-">> \o InfinityText THEN CalcInfinity(TRUE)
    ELSE LET neg     == text[1] = "-"
             i       == IF neg THEN 2 ELSE 1
             j       == ScanDigits(text, i)
             hasDot  == j <= Len(text) /\ text[j] = "."
             k       == IF hasDot THEN ScanDigits(text, j + 1) ELSE j
             fracLen == IF hasDot THEN k - 1 - j ELSE 0
             scaled  == DigitsValue(text, j + 1, k - 1) * CalcUnit
         IN  IF scaled % Pow10(fracLen) # 0 THEN CalcOutside
             ELSE CalcNum(neg, (DigitsValue(text, i, j - 1) * CalcUnit)
                               + (scaled \div Pow10(fracLen)))

CalcNeg(a) == IF a.kind \in {"num", "Infinity"} THEN [a EXCEPT !.neg = ~@] ELSE a

\* firstValue + secondValue
CalcAdd(a, b) ==
    IF a.kind = "outside" \/ b.kind = "outside" THEN CalcOutside
    ELSE IF a.kind = "NaN" \/ b.kind = "NaN" THEN CalcNaN
    ELSE IF a.kind = "Infinity" /\ b.kind = "Infinity"
         THEN (IF a.neg = b.neg THEN a ELSE CalcNaN)
    ELSE IF a.kind = "Infinity" THEN a
    ELSE IF b.kind = "Infinity" THEN b
    ELSE LET sa  == IF a.neg THEN 0 - a.mag ELSE a.mag
             sb  == IF b.neg THEN 0 - b.mag ELSE b.mag
             sum == sa + sb
         IN  IF sum = 0 THEN CalcNum(a.mag = 0 /\ b.mag = 0 /\ a.neg /\ b.neg, 0)
             ELSE IF sum < 0 THEN CalcNum(TRUE, 0 - sum)
             ELSE CalcNum(FALSE, sum)

\* firstValue * secondValue
CalcMul(a, b) ==
    IF a.kind = "outside" \/ b.kind = "outside" THEN CalcOutside
    ELSE IF a.kind = "NaN" \/ b.kind = "NaN" THEN CalcNaN
    ELSE IF a.kind = "Infinity" \/ b.kind = "Infinity"
         THEN (IF (a.kind = "num" /\ a.mag = 0) \/ (b.kind = "num" /\ b.mag = 0)
               THEN CalcNaN
               ELSE CalcInfinity(a.neg # b.neg))
    ELSE IF (a.mag * b.mag) % CalcUnit # 0 THEN CalcOutside
    ELSE CalcNum(a.neg # b.neg, (a.mag * b.mag) \div CalcUnit)

\* firstValue / secondValue
CalcDiv(a, b) ==
    IF a.kind = "outside" \/ b.kind = "outside" THEN CalcOutside
    ELSE IF a.kind = "NaN" \/ b.kind = "NaN" THEN CalcNaN
    ELSE IF a.kind = "Infinity"
         THEN (IF b.kind = "Infinity" THEN CalcNaN ELSE CalcInfinity(a.neg # b.neg))
    ELSE IF b.kind = "Infinity" THEN CalcNum(a.neg # b.neg, 0)
    ELSE IF b.mag = 0
         THEN (IF a.mag = 0 THEN CalcNaN ELSE CalcInfinity(a.neg # b.neg))
    ELSE IF (a.mag * CalcUnit) % b.mag # 0 THEN CalcOutside
    ELSE CalcNum(a.neg # b.neg, (a.mag * CalcUnit) \div b.mag)

calculate(firstValue, secondValue, op) ==
    IF op = "+" THEN CalcAdd(firstValue, secondValue)
    ELSE IF op = "-" THEN CalcAdd(firstValue, CalcNeg(secondValue))
    ELSE IF op = "*" THEN CalcMul(firstValue, secondValue)
    ELSE IF op = "/" THEN CalcDiv(firstValue, secondValue)
    ELSE secondValue

\* previousValue || 0
ValueOrZero(v) ==
    IF v.kind = "NaN" \/ (v.kind = "num" /\ v.mag = 0) THEN CalcNum(FALSE, 0) ELSE v

CalcFrame ==
    /\ UNCHANGED <<customers, customersLoading, view, report, queryVars, dialogVars>>
    /\ UNCHANGED serverVars

inputNumber(num) ==
    /\ IF waitingForNewValue
       THEN /\ display' = <<num>>
            /\ waitingForNewValue' = FALSE
       ELSE /\ Len(display) < MaxDisplayLen
            /\ display' = IF display = <<"0">> THEN <<num>> ELSE Append(display, num)
            /\ UNCHANGED waitingForNewValue
    /\ UNCHANGED <<previousValue, operation>>
    /\ CalcFrame

\* inputDot that does not look for a dot in the display
inputDotAlways ==
    /\ IF waitingForNewValue
       THEN /\ display' = <<"0", ".">>
            /\ waitingForNewValue' = FALSE
       ELSE /\ Len(display) < MaxDisplayLen
            /\ display' = Append(display, ".")
            /\ UNCHANGED waitingForNewValue
    /\ UNCHANGED <<previousValue, operation>>
    /\ CalcFrame

inputDot ==
    /\ IF waitingForNewValue
       THEN /\ display' = <<"0", ".">>
            /\ waitingForNewValue' = FALSE
       ELSE IF \A i \in 1..Len(display) : display[i] # "."
       THEN /\ Len(display) < MaxDisplayLen
            /\ display' = Append(display, ".")
            /\ UNCHANGED waitingForNewValue
       ELSE UNCHANGED <<display, waitingForNewValue>>
    /\ UNCHANGED <<previousValue, operation>>
    /\ CalcFrame

clear ==
    /\ display' = <<"0">>
    /\ previousValue' = Null
    /\ operation' = NoOperation
    /\ waitingForNewValue' = FALSE
    /\ CalcFrame

performOperation(nextOperation) ==
    LET inputValue == ParseDisplay(display)
        result     == calculate(ValueOrZero(previousValue), inputValue, operation)
    IN  /\ InDomain(inputValue)
        /\ IF previousValue = Null
           THEN /\ previousValue' = inputValue
                /\ UNCHANGED display
           ELSE IF operation # NoOperation
           THEN /\ InDomain(result)
                /\ display' = StringOf(result)
                /\ previousValue' = result
           ELSE UNCHANGED <<display, previousValue>>
        /\ waitingForNewValue' = TRUE
        /\ operation' = nextOperation
        /\ CalcFrame

handleEquals ==
    LET inputValue == ParseDisplay(display)
        result     == calculate(previousValue, inputValue, operation)
    IN  /\ InDomain(inputValue)
        /\ IF previousValue # Null /\ operation # NoOperation
           THEN /\ InDomain(result)
                /\ display' = StringOf(result)
                /\ previousValue' = Null
                /\ operation' = NoOperation
                /\ waitingForNewValue' = TRUE
           ELSE UNCHANGED calcVars
        /\ CalcFrame

NextCalculator ==
    \/ \E num \in CalcDigitKeys : inputNumber(num)
    \/ inputDot
    \/ clear
    \/ \E nextOperation \in CalcOperatorKeys : performOperation(nextOperation)
    \/ handleEquals

SpecCalculator == Init /\ [][NextCalculator]_vars

(***************************************************************************)
(* C29.  Pressing an operator key while the calculator is waiting for a    *)
(* new operand, right after another operator key, only replaces the        *)
(* pending operator: display and previousValue stay as they are.           *)
(***************************************************************************)
OperatorAfterOperatorOnlyReplaces ==
    (/\ waitingForNewValue
     /\ operation # NoOperation
     /\ waitingForNewValue'
     /\ operation' # NoOperation)
        => /\ display' = display
           /\ previousValue' = previousValue

C29_OperatorAfterOperatorOnlyReplaces == [][OperatorAfterOperatorOnlyReplaces]_vars

(***************************************************************************)
(* C30.  After any sequence of key presses the display is not the empty    *)
(* string and holds at most one decimal point, and clear gives the initial *)
(* state: display "0", no previous value, no pending operator, not waiting *)
(* for a new value.                                                        *)
(***************************************************************************)
DisplayIsWellFormed ==
    /\ display # <<>>
    /\ Cardinality({ i \in 1..Len(display) : display[i] = "." }) <= 1

ClearGivesTheInitialState ==
    clear => /\ display' = <<"0">>
             /\ previousValue' = Null
             /\ operation' = NoOperation
             /\ ~waitingForNewValue'

C30_DisplayWellFormedAndClearResets ==
    /\ []DisplayIsWellFormed
    /\ [][ClearGivesTheInitialState]_vars

\* previousValue is the result 2.5 (of 5 * 0.5), the key of division was
\* pressed, and then the dot and a digit were typed
C30_Witness ==
    /\ display = <<"0", ".", "5">>
    /\ previousValue = CalcNum(FALSE, 10)
    /\ operation = "/"
    /\ ~waitingForNewValue

====
